---- MODULE Spec2Model ----
(***************************************************************************)
(* InvestShield: the fraud-risk scoring engine of                          *)
(* backend/app/services/content_analysis_service.py and its callers in     *)
(* backend/app/routers/scanner.py.                                         *)
(*                                                                         *)
(* A Python str is a sequence of one-character strings, so that substring  *)
(* containment, str.lower, str.strip, the regular expressions and          *)
(* urlparse are computed on the characters as the code computes them.      *)
(* A Python float that the lexical scorer produces is a pair <<t, d>>      *)
(* standing for the double t/3 + d/(3 * 2^50); see FRound.                 *)
(***************************************************************************)
EXTENDS Integers, Sequences, FiniteSets, TLC

(***************************************************************************)
(* Bounds of the model.                                                    *)
(***************************************************************************)
\* a text is built from at most MaxFrags of the Fragments
MaxFrags == 2
\* requests served by one service instance in the specification Spec
MaxCalls == 2
\* texts of one /batch-analyze request
MaxBatch == 2

(***************************************************************************)
(* Characters and the str methods the engine uses.                         *)
(***************************************************************************)
UpperCase == <<"A","B","C","D","E","F","G","H","I","J","K","L","M",
               "N","O","P","Q","R","S","T","U","V","W","X","Y","Z">>
LowerCase == <<"a","b","c","d","e","f","g","h","i","j","k","l","m",
               "n","o","p","q","r","s","t","u","v","w","x","y","z">>
DigitChars == {"0","1","2","3","4","5","6","7","8","9"}
Whitespace == {" ", "\t", "\n"}

UpperChars == {UpperCase[i] : i \in 1..26}

\* str.lower on one character
lower_char(c) ==
  IF c \in UpperChars
    THEN LowerCase[CHOOSE i \in 1..26 : UpperCase[i] = c]
    ELSE c

\* str.lower
lower(s) == [i \in 1..Len(s) |-> lower_char(s[i])]

\* str.strip
strip(s) ==
  IF \A i \in 1..Len(s) : s[i] \in Whitespace THEN <<>>
  ELSE SubSeq(s,
         CHOOSE i \in 1..Len(s) :
           s[i] \notin Whitespace /\ \A j \in 1..(i - 1) : s[j] \in Whitespace,
         CHOOSE i \in 1..Len(s) :
           s[i] \notin Whitespace /\ \A j \in (i + 1)..Len(s) : s[j] \in Whitespace)

\* s[i:].startswith(p), i counted from 1
StartsAt(s, i, p) ==
  /\ i + Len(p) - 1 <= Len(s)
  /\ \A j \in 1..Len(p) : s[i + j - 1] = p[j]

\* str.startswith
startswith(s, p) == StartsAt(s, 1, p)

\* the Python expression `p in s` on two strings
contains(s, p) == \E i \in 1..(Len(s) - Len(p) + 1) : StartsAt(s, i, p)

\* the Python expression `x in xs` on a list
InList(x, xs) == \E i \in 1..Len(xs) : xs[i] = x

\* sum of a list of integers
RECURSIVE SumSeq(_)
SumSeq(xs) == IF xs = <<>> THEN 0 ELSE Head(xs) + SumSeq(Tail(xs))

Min(a, b) == IF a < b THEN a ELSE b
Max(a, b) == IF a > b THEN a ELSE b

(***************************************************************************)
(* The static tables built by ContentAnalysisService.__init__.             *)
(***************************************************************************)
\* _load_fraud_keywords: category -> keywords, in dict order
fraud_keywords ==
  << [category |-> "guaranteed_returns", keywords |-> <<
         <<"g","u","a","r","a","n","t","e","e","d">>,
         <<"g","u","a","r","a","n","t","e","e">>,
         <<"1","0","0","%"," ","p","r","o","f","i","t">>,
         <<"1","0","0","%"," ","r","e","t","u","r","n","s">>,
         <<"a","s","s","u","r","e","d"," ","r","e","t","u","r","n","s">>,
         <<"r","i","s","k","-","f","r","e","e">>,
         <<"n","o"," ","r","i","s","k">>,
         <<"s","u","r","e"," ","s","h","o","t">>,
         <<"c","o","n","f","i","r","m","e","d"," ","p","r","o","f","i","t">>,
         <<"g","u","a","r","a","n","t","e","e","d"," ","p","r","o","f","i","t">> >>],
     [category |-> "urgency_pressure", keywords |-> <<
         <<"l","i","m","i","t","e","d"," ","t","i","m","e">>,
         <<"h","u","r","r","y"," ","u","p">>,
         <<"a","c","t"," ","f","a","s","t">>,
         <<"o","n","l","y"," ","t","o","d","a","y">>,
         <<"l","a","s","t"," ","c","h","a","n","c","e">>,
         <<"u","r","g","e","n","t">>,
         <<"i","m","m","e","d","i","a","t","e">>,
         <<"e","x","p","i","r","e","s"," ","s","o","o","n">>,
         <<"l","i","m","i","t","e","d"," ","s","l","o","t","s">>,
         <<"b","o","o","k"," ","n","o","w">> >>],
     [category |-> "insider_trading", keywords |-> <<
         <<"i","n","s","i","d","e","r"," ","t","i","p">>,
         <<"i","n","s","i","d","e","r"," ","i","n","f","o","r","m","a","t","i","o","n">>,
         <<"c","o","n","f","i","d","e","n","t","i","a","l"," ","i","n","f","o">>,
         <<"s","e","c","r","e","t"," ","t","i","p">>,
         <<"i","n","s","i","d","e"," ","n","e","w","s">>,
         <<"e","x","c","l","u","s","i","v","e"," ","t","i","p">>,
         <<"c","o","m","p","a","n","y"," ","i","n","s","i","d","e","r">>,
         <<"p","r","i","v","a","t","e"," ","i","n","f","o","r","m","a","t","i","o","n">> >>],
     [category |-> "fake_credentials", keywords |-> <<
         <<"s","e","b","i"," ","r","e","g","i","s","t","e","r","e","d">>,
         <<"g","o","v","e","r","n","m","e","n","t"," ","a","p","p","r","o","v","e","d">>,
         <<"r","b","i"," ","c","e","r","t","i","f","i","e","d">>,
         <<"o","f","f","i","c","i","a","l"," ","a","d","v","i","s","o","r">>,
         <<"l","i","c","e","n","s","e","d"," ","b","y"," ","s","e","b","i">>,
         <<"a","u","t","h","o","r","i","z","e","d"," ","d","e","a","l","e","r">>,
         <<"c","e","r","t","i","f","i","e","d"," ","a","n","a","l","y","s","t">> >>],
     [category |-> "social_proof_manipulation", keywords |-> <<
         <<"j","o","i","n"," ","t","h","o","u","s","a","n","d","s">>,
         <<"e","v","e","r","y","o","n","e"," ","i","s"," ","b","u","y","i","n","g">>,
         <<"v","i","r","a","l"," ","s","t","o","c","k">>,
         <<"t","r","e","n","d","i","n","g"," ","i","n","v","e","s","t","m","e","n","t">>,
         <<"c","e","l","e","b","r","i","t","i","e","s"," ","i","n","v","e","s","t","i","n","g">>,
         <<"b","i","l","l","i","o","n","a","i","r","e"," ","s","e","c","r","e","t">>,
         <<"m","i","l","l","i","o","n","a","i","r","e"," ","s","t","r","a","t","e","g","y">> >>],
     [category |-> "contact_pressure", keywords |-> <<
         <<"w","h","a","t","s","a","p","p"," ","i","m","m","e","d","i","a","t","e","l","y">>,
         <<"c","a","l","l"," ","n","o","w">>,
         <<"m","e","s","s","a","g","e"," ","f","o","r"," ","d","e","t","a","i","l","s">>,
         <<"d","m"," ","f","o","r"," ","t","i","p","s">>,
         <<"j","o","i","n"," ","t","e","l","e","g","r","a","m">>,
         <<"c","l","i","c","k"," ","l","i","n","k">>,
         <<"d","o","w","n","l","o","a","d"," ","a","p","p">>,
         <<"r","e","g","i","s","t","e","r"," ","i","m","m","e","d","i","a","t","e","l","y">> >>],
     [category |-> "unrealistic_claims", keywords |-> <<
         <<"d","o","u","b","l","e"," ","m","o","n","e","y">>,
         <<"t","r","i","p","l","e"," ","r","e","t","u","r","n","s">>,
         <<"m","u","l","t","i","p","l","y"," ","w","e","a","l","t","h">>,
         <<"1","0","0","0","%"," ","r","e","t","u","r","n","s">>,
         <<"c","r","o","r","e","p","a","t","i"," ","i","n"," ","d","a","y","s">>,
         <<"o","v","e","r","n","i","g","h","t"," ","r","i","c","h">>,
         <<"i","n","s","t","a","n","t"," ","w","e","a","l","t","h">>,
         <<"m","o","n","e","y"," ","m","u","l","t","i","p","l","i","c","a","t","i","o","n">> >>] >>

\* _load_legitimate_indicators
legitimate_indicators ==
  <<
    <<"s","e","b","i"," ","r","e","g","i","s","t","e","r","e","d">>,
    <<"m","u","t","u","a","l"," ","f","u","n","d">>,
    <<"s","y","s","t","e","m","a","t","i","c"," ","i","n","v","e","s","t","m","e","n","t">>,
    <<"d","i","v","e","r","s","i","f","i","c","a","t","i","o","n">>,
    <<"r","i","s","k"," ","a","s","s","e","s","s","m","e","n","t">>,
    <<"f","i","n","a","n","c","i","a","l"," ","p","l","a","n","n","i","n","g">>,
    <<"l","o","n","g"," ","t","e","r","m"," ","i","n","v","e","s","t","m","e","n","t">>,
    <<"p","o","r","t","f","o","l","i","o">>,
    <<"a","s","s","e","t"," ","a","l","l","o","c","a","t","i","o","n">>,
    <<"e","x","p","e","n","s","e"," ","r","a","t","i","o">>,
    <<"f","u","n","d"," ","m","a","n","a","g","e","r">>,
    <<"p","r","o","s","p","e","c","t","u","s">>,
    <<"r","e","g","u","l","a","t","o","r","y"," ","c","o","m","p","l","i","a","n","c","e">>,
    <<"d","i","s","c","l","o","s","u","r","e">>,
    <<"p","a","s","t"," ","p","e","r","f","o","r","m","a","n","c","e">>,
    <<"s","e","c","u","r","i","t","i","e","s"," ","a","n","d"," ","e","x","c","h","a","n","g","e"," ","b","o","a","r","d">>,
    <<"r","e","s","e","r","v","e"," ","b","a","n","k"," ","o","f"," ","i","n","d","i","a">>,
    <<"b","o","m","b","a","y"," ","s","t","o","c","k"," ","e","x","c","h","a","n","g","e">>,
    <<"n","a","t","i","o","n","a","l"," ","s","t","o","c","k"," ","e","x","c","h","a","n","g","e">>,
    <<"i","n","s","u","r","a","n","c","e"," ","r","e","g","u","l","a","t","o","r","y">>,
    <<"c","a","p","i","t","a","l"," ","m","a","r","k","e","t">>,
    <<"i","n","v","e","s","t","o","r"," ","p","r","o","t","e","c","t","i","o","n">>,
    <<"f","i","n","a","n","c","i","a","l"," ","s","e","r","v","i","c","e","s">>,
    <<"r","e","g","u","l","a","t","o","r","y"," ","a","u","t","h","o","r","i","t","y">>,
    <<"g","o","v","e","r","n","m","e","n","t"," ","o","f"," ","i","n","d","i","a">>,
    <<"m","i","n","i","s","t","r","y"," ","o","f"," ","f","i","n","a","n","c","e">>,
    <<"p","u","b","l","i","c"," ","s","e","c","t","o","r"," ","u","n","d","e","r","t","a","k","i","n","g">>,
    <<"a","u","t","h","o","r","i","z","e","d"," ","d","e","a","l","e","r">>,
    <<"l","i","c","e","n","s","e","d"," ","e","n","t","i","t","y">>,
    <<"r","e","g","u","l","a","t","o","r","y"," ","f","r","a","m","e","w","o","r","k">> >>

\* _load_trusted_domains
trusted_domains ==
  <<
    <<"s","e","b","i",".","g","o","v",".","i","n">>,
    <<"r","b","i",".","o","r","g",".","i","n">>,
    <<"i","r","d","a","i",".","g","o","v",".","i","n">>,
    <<"p","f","r","d","a",".","o","r","g",".","i","n">>,
    <<"b","s","e","i","n","d","i","a",".","c","o","m">>,
    <<"n","s","e","i","n","d","i","a",".","c","o","m">>,
    <<"m","c","x","i","n","d","i","a",".","c","o","m">>,
    <<"n","c","d","e","x",".","c","o","m">>,
    <<"i","n","v","e","s","t","i","n","d","i","a",".","g","o","v",".","i","n">>,
    <<"f","i","n","m","i","n",".","n","i","c",".","i","n">>,
    <<"c","b","d","t",".","g","o","v",".","i","n">>,
    <<"i","n","c","o","m","e","t","a","x",".","g","o","v",".","i","n">>,
    <<"s","b","i",".","c","o",".","i","n">>,
    <<"b","a","n","k","o","f","b","a","r","o","d","a",".","i","n">>,
    <<"p","n","b","i","n","d","i","a",".","i","n">>,
    <<"c","a","n","a","r","a","b","a","n","k",".","c","o","m">>,
    <<"b","a","n","k","o","f","i","n","d","i","a",".","c","o",".","i","n">>,
    <<"u","n","i","o","n","b","a","n","k","o","f","i","n","d","i","a",".","c","o",".","i","n">>,
    <<"i","c","i","c","i","p","r","u","a","m","c",".","c","o","m">>,
    <<"h","d","f","c","f","u","n","d",".","c","o","m">>,
    <<"s","b","i","f","u","n","d","s","o","l","i","n","e",".","c","o","m">>,
    <<"r","e","l","i","a","n","c","e","m","u","t","u","a","l",".","c","o","m">>,
    <<"l","i","c","i","n","d","i","a",".","i","n">>,
    <<"n","e","w","i","n","d","i","a",".","c","o",".","i","n">>,
    <<"o","r","i","e","n","t","a","l","i","n","s","u","r","a","n","c","e",".","o","r","g",".","i","n">>,
    <<"c","r","i","s","i","l",".","c","o","m">>,
    <<"i","c","r","a",".","i","n">>,
    <<"c","a","r","e","r","a","t","i","n","g","s",".","c","o","m">>,
    <<"i","n","v","e","s","t","o","r",".","g","o","v",".","i","n">>,
    <<"m","f","u","o","n","l","i","n","e",".","c","o","m">>,
    <<"a","m","f","i","i","n","d","i","a",".","c","o","m">> >>

(***************************************************************************)
(* Regular expressions of _load_risk_patterns.  A pattern is a sequence of *)
(* elements: "alt" (one of a set of literals), "ws" (any run of           *)
(* whitespace, possibly empty), "digits" (a non-empty run of digits).      *)
(***************************************************************************)
\* the regex element (a|b|c)
Alt(lits) == [kind |-> "alt", lits |-> lits]
\* the regex element \s*
Ws == [kind |-> "ws", lits |-> {}]
\* the regex element \d+
DigitRun == [kind |-> "digits", lits |-> {}]

\* _load_risk_patterns
risk_patterns ==
  << [pattern |-> << DigitRun, Alt({<<"%">>}), Ws,
                     Alt({<<"p","r","o","f","i","t">>, <<"r","e","t","u","r","n">>,
                          <<"g","a","i","n">>}) >>,
      risk_score |-> 30, description |-> "Specific percentage claims"],
     [pattern |-> << Alt({<<"r","s">>, <<"₹">>}), Ws, DigitRun, Ws,
                     Alt({<<"l","a","k","h">>, <<"c","r","o","r","e">>}) >>,
      risk_score |-> 25, description |-> "Large monetary amounts mentioned"],
     [pattern |-> << Alt({<<"w","h","a","t","s","a","p","p">>,
                          <<"t","e","l","e","g","r","a","m">>, <<"d","m">>}), Ws,
                     Alt({<<"m","e">>, <<"f","o","r">>, <<"@">>}) >>,
      risk_score |-> 40, description |-> "Solicitation through messaging apps"],
     [pattern |-> << Alt({<<"b","u","y">>, <<"i","n","v","e","s","t">>,
                          <<"p","u","r","c","h","a","s","e">>}), Ws,
                     Alt({<<"t","o","d","a","y">>, <<"n","o","w">>,
                          <<"i","m","m","e","d","i","a","t","e","l","y">>}) >>,
      risk_score |-> 35, description |-> "Pressure to invest immediately"],
     [pattern |-> << Alt({<<"f","r","e","e">>, <<"p","r","e","m","i","u","m">>}), Ws,
                     Alt({<<"t","i","p","s">>, <<"c","a","l","l","s">>,
                          <<"a","d","v","i","c","e">>}) >>,
      risk_score |-> 20, description |-> "Free tip schemes"] >>

\* does the pattern suffix p[k..] match text at position i (backtracking)
RECURSIVE MatchAt(_, _, _, _)
MatchAt(p, k, text, i) ==
  IF k > Len(p) THEN TRUE
  ELSE LET e == p[k] IN
    CASE e.kind = "alt" ->
           \E a \in e.lits : StartsAt(text, i, a) /\ MatchAt(p, k + 1, text, i + Len(a))
      [] e.kind = "ws" ->
           \E j \in i..(Len(text) + 1) :
              /\ \A m \in i..(j - 1) : text[m] \in Whitespace
              /\ MatchAt(p, k + 1, text, j)
      [] e.kind = "digits" ->
           \E j \in (i + 1)..(Len(text) + 1) :
              /\ \A m \in i..(j - 1) : text[m] \in DigitChars
              /\ MatchAt(p, k + 1, text, j)

\* re.match(pattern, text, re.IGNORECASE): a match at the start of the text only
re_match(pattern, text) ==
  LET t == lower(text) IN MatchAt(pattern, 1, t, 1)
\* re.search(pattern, text, re.IGNORECASE)
re_search(pattern, text) ==
  LET t == lower(text) IN \E i \in 1..Len(t) : MatchAt(pattern, 1, t, i)

(***************************************************************************)
(* Python floats of the lexical scorer.  Every float it computes is        *)
(* n/3 for an integer n, rounded to a double, or a sum or difference of    *)
(* such doubles and integers.  <<t, d>> stands for the double              *)
(* t/3 + d/(3 * 2^50): t counts thirds, d is the rounding error in units   *)
(* of 2^-50/3.  FRound rounds the exact value to the nearest double        *)
(* (ties to even), using only residues modulo 3 * 2^j.                     *)
(***************************************************************************)
Pow2(j) == CASE j = 0 -> 1 [] j = 1 -> 2 [] j = 2 -> 4 [] j = 3 -> 8
             [] j = 4 -> 16 [] j = 5 -> 32 [] j = 6 -> 64 [] j = 7 -> 128

\* is the exact value t/3 + d/(3*2^50) at least the integer n
FGe(x, n) == x[1] > 3 * n \/ (x[1] = 3 * n /\ x[2] >= 0)
\* x > n, x < n for a float x and an integer n
FGt(x, n) == x[1] > 3 * n \/ (x[1] = 3 * n /\ x[2] > 0)
FLt(x, n) == x[1] < 3 * n \/ (x[1] = 3 * n /\ x[2] < 0)

\* the spacing of doubles around x is 2^UlpExp(x) units of 2^-50
UlpExp(x) ==
  IF FGe(x, 128) THEN 5 ELSE IF FGe(x, 64) THEN 4 ELSE IF FGe(x, 32) THEN 3
  ELSE IF FGe(x, 16) THEN 2 ELSE IF FGe(x, 8) THEN 1 ELSE 0

\* (t * 2^50 + d) mod (3 * 2^j); 2^(50-j) mod 3 is 1 for even j, 2 for odd j
Residue(x, j) ==
  (x[1] * Pow2(j) * (IF j % 2 = 0 THEN 1 ELSE 2) + x[2]) % (3 * Pow2(j))

\* round a non-negative exact value to the nearest double, ties to even
FRound(x) ==
  LET j    == UlpExp(x)
      u3   == 3 * Pow2(j)
      r    == Residue(x, j)
      down == <<x[1], x[2] - r>>
      up   == <<x[1], x[2] + u3 - r>>
  IN  IF 2 * r < u3 THEN down
      ELSE IF 2 * r > u3 THEN up
      ELSE IF Residue(down, j + 1) = 0 THEN down ELSE up

\* float(n) for an integer n
FInt(n) == <<3 * n, 0>>
\* n / 3
FDiv3(n) == FRound(<<n, 0>>)
\* x + y for two non-negative floats
FAdd(x, y) == FRound(<<x[1] + y[1], x[2] + y[2]>>)
\* min(x, n), max(x, n) for a float x and an integer n
FMinInt(x, n) == IF FLt(x, n) THEN x ELSE FInt(n)
\* max(0, x - n): the subtraction without the upper bound
FSubClamp_unbounded(x, n) ==
  LET e == <<x[1] - 3 * n, x[2]>>
  IN  IF FLt(e, 0) \/ e = <<0, 0>> THEN FInt(0) ELSE FRound(e)
\* max(0, min(x - n, 100)) for a float x >= 0 and an integer n >= 0
FSubClamp(x, n) ==
  LET e == <<x[1] - 3 * n, x[2]>>
  IN  IF FLt(e, 0) \/ e = <<0, 0>> THEN FInt(0) ELSE FMinInt(FRound(e), 100)
\* round(x, 1), in tenths: the fraction of 10 * t / 3 is 0, 1/3 or 2/3
FRoundTenths(x) == (10 * x[1] + 1) \div 3

(***************************************************************************)
(* LexicalScorer: keyword, pattern and legitimacy scoring.                 *)
(***************************************************************************)
\* the found categories in the reverse of the table order
_find_fraud_keywords_reversed(text) ==
  LET found_in_category(c) == SelectSeq(c.keywords, LAMBDA keyword : contains(text, keyword))
      all == [i \in 1..Len(fraud_keywords) |->
                [category |-> fraud_keywords[Len(fraud_keywords) + 1 - i].category,
                 keywords |-> found_in_category(fraud_keywords[Len(fraud_keywords) + 1 - i])]]
  IN  SelectSeq(all, LAMBDA e : e.keywords # <<>>)
\* _find_fraud_keywords: the non-empty categories, in table order, each
\* with the keywords of the category that occur in the text, in table order
_find_fraud_keywords(text) ==
  LET found_in_category(c) == SelectSeq(c.keywords, LAMBDA keyword : contains(text, keyword))
      all == [i \in 1..Len(fraud_keywords) |->
                [category |-> fraud_keywords[i].category,
                 keywords |-> found_in_category(fraud_keywords[i])]]
  IN  SelectSeq(all, LAMBDA e : e.keywords # <<>>)

\* _find_pattern_matches
_find_pattern_matches(text) ==
  SelectSeq(risk_patterns, LAMBDA pattern_info : re_search(pattern_info.pattern, text))

\* category_weights.get(category, 10)
category_weights(category) ==
  CASE category = "guaranteed_returns" -> 25
    [] category = "urgency_pressure" -> 20
    [] category = "insider_trading" -> 30
    [] category = "fake_credentials" -> 25
    [] category = "social_proof_manipulation" -> 15
    [] category = "contact_pressure" -> 20
    [] category = "unrealistic_claims" -> 30
    [] OTHER -> 10

\* weight * len(keywords) / 3: every keyword of the category counts
category_score_uncapped(e) == FDiv3(category_weights(e.category) * Len(e.keywords))
\* weight * min(len(keywords), 3) / 3
category_score(e) == FDiv3(category_weights(e.category) * Min(Len(e.keywords), 3))

\* total_score after the first n entries of found_keywords
RECURSIVE total_score(_, _)
total_score(found_keywords, n) ==
  IF n = 0 THEN FInt(0)
  ELSE FAdd(total_score(found_keywords, n - 1), category_score(found_keywords[n]))

\* _calculate_keyword_risk_score
_calculate_keyword_risk_score(found_keywords) ==
  FMinInt(total_score(found_keywords, Len(found_keywords)), 80)

\* _calculate_legitimate_score
_calculate_legitimate_score(text) ==
  LET legitimate_count ==
        Cardinality({i \in 1..Len(legitimate_indicators) :
                       contains(text, legitimate_indicators[i])})
  IN  Min(legitimate_count * 5, 25)

\* sum(len(keywords) for keywords in found_keywords.values())
keyword_count(found_keywords) ==
  SumSeq([i \in 1..Len(found_keywords) |-> Len(found_keywords[i].keywords)])

(***************************************************************************)
(* The confidence is the float base + boosts + text_length / 100.  It is   *)
(* kept as <<b, n>>: the integer part b of the sum and the n hundredths    *)
(* that text_length / 100 adds, standing for the double fl(b + fl(n/100)). *)
(* round(x, 1) of it depends on the side of the decimal b + n/100 the      *)
(* double lies on when n ends in 5; ConfidenceErrorSign computes that side *)
(* from the residues of the two roundings.                                 *)
(***************************************************************************)
RECURSIVE Power2(_)
Power2(k) == IF k = 0 THEN 1 ELSE 2 * Power2(k - 1)

\* 2^k mod 25, which has period 20
RECURSIVE Pow2Mod25(_)
Pow2Mod25(k) == IF k % 20 = 0 THEN 1 ELSE (2 * Pow2Mod25((k % 20) - 1)) % 25

\* 52 - floor(log2(n / 100)) for 1 <= n < 500: doubles around n/100 are
\* spaced 2^-QuotientExp(n) apart
QuotientExp(n) ==
  IF n >= 400 THEN 50 ELSE IF n >= 200 THEN 51 ELSE IF n >= 100 THEN 52
  ELSE IF n >= 50 THEN 53 ELSE IF n >= 25 THEN 54 ELSE IF n >= 13 THEN 55
  ELSE IF n >= 7 THEN 56 ELSE IF n >= 4 THEN 57 ELSE IF n >= 2 THEN 58 ELSE 59

\* the sign of fl(b + fl(n/100)) - (b + n/100), for 50 <= b < 100, 0 <= n < 500
ConfidenceErrorSign(b, n) ==
  IF n = 0 THEN 0
  ELSE LET e     == QuotientExp(n)
           rho   == ((n % 25) * Pow2Mod25(e - 2)) % 25
           delta == IF 2 * rho < 25 THEN 0 - rho ELSE 25 - rho
           g     == IF 100 * b + n >= 6400 THEN e - 46 ELSE e - 47
           \* fl(n/100) * 2^e modulo 2^k
           low(k) == (( Power2(k) * (((n % 25) * Pow2Mod25(e - 2 - k)) % 25) + delta)
                       % (25 * Power2(k))) \div 25
           r     == low(g)
           e2    == IF 2 * r < Power2(g) THEN 0 - r
                    ELSE IF 2 * r > Power2(g) THEN Power2(g) - r
                    ELSE IF low(g + 1) = r THEN 0 - r ELSE Power2(g) - r
           err   == delta + 25 * e2
       IN  IF err > 0 THEN 1 ELSE IF err < 0 THEN -1 ELSE 0

\* round to tenths a double that lies on the side `sign` of the decimal of
\* h hundredths; an exact tie goes to the even tenth
RoundHundredths(h, sign) ==
  IF h % 10 # 5 THEN (h + 5) \div 10
  ELSE IF sign > 0 THEN h \div 10 + 1
  ELSE IF sign < 0 THEN h \div 10
  ELSE IF (h \div 10) % 2 = 0 THEN h \div 10 ELSE h \div 10 + 1

\* round(x, 1) of a confidence <<b, n>>, in tenths
RoundConfidence(x) ==
  RoundHundredths(100 * x[1] + x[2], ConfidenceErrorSign(x[1], x[2]))

\* a confidence with ten points for every keyword, without the cap of 30
_calculate_confidence_score_every_keyword(found_keywords, pattern_matches, text_length) ==
  LET length_boost == IF text_length < 500 THEN <<0, text_length>> ELSE <<5, 0>>
      total        == <<50 + keyword_count(found_keywords) * 10
                           + Min(Len(pattern_matches) * 5, 15) + length_boost[1],
                        length_boost[2]>>
  IN  IF 100 * total[1] + total[2] < 9500 THEN total ELSE <<95, 0>>
\* _calculate_confidence_score
_calculate_confidence_score(found_keywords, pattern_matches, text_length) ==
  LET base_confidence  == 50
      confidence_boost == Min(keyword_count(found_keywords) * 10, 30)
      pattern_boost    == Min(Len(pattern_matches) * 5, 15)
      \* min(text_length / 100, 5)
      length_boost     == IF text_length < 500 THEN <<0, text_length>> ELSE <<5, 0>>
      total            == <<base_confidence + confidence_boost + pattern_boost
                              + length_boost[1], length_boost[2]>>
  IN  IF 100 * total[1] + total[2] < 9500 THEN total ELSE <<95, 0>>

\* the category name itself as the label
category_mapping_raw(category) == category
\* category_mapping.get(primary_category, 'general_fraud')
category_mapping(category) ==
  CASE category = "guaranteed_returns" -> "guaranteed_returns_scam"
    [] category = "urgency_pressure" -> "pressure_tactics"
    [] category = "insider_trading" -> "insider_trading_scam"
    [] category = "fake_credentials" -> "fake_advisor"
    [] category = "social_proof_manipulation" -> "social_manipulation"
    [] category = "contact_pressure" -> "contact_scam"
    [] category = "unrealistic_claims" -> "unrealistic_promises"
    [] OTHER -> "general_fraud"

\* a labelling without the "legitimate" case
_determine_fraud_type_suspecting(found_keywords, pattern_matches) ==
  IF found_keywords = <<>> THEN "suspicious_patterns" ELSE "general_fraud"
\* _determine_fraud_type; max(..., key=...) returns the first maximal entry
_determine_fraud_type(found_keywords, pattern_matches) ==
  IF found_keywords = <<>> /\ pattern_matches = <<>> THEN "legitimate"
  ELSE IF found_keywords = <<>> THEN "suspicious_patterns"
  ELSE LET best == CHOOSE i \in 1..Len(found_keywords) :
                     /\ \A j \in 1..Len(found_keywords) :
                          Len(found_keywords[j].keywords) <= Len(found_keywords[i].keywords)
                     /\ \A j \in 1..(i - 1) :
                          Len(found_keywords[j].keywords) < Len(found_keywords[i].keywords)
       IN  category_mapping(found_keywords[best].category)

\* the checks with the urgency phrases in front of the guarantee phrases
_determine_fraud_type_enhanced_urgency_first(text_lower, found_keywords, is_suspicious) ==
  LET any(words) == \E word \in words : contains(text_lower, word) IN
  IF ~is_suspicious THEN "legitimate"
  ELSE IF any({<<"u","r","g","e","n","t">>, <<"i","m","m","e","d","i","a","t","e">>, <<"l","i","m","i","t","e","d"," ","t","i","m","e">>, <<"a","c","t"," ","n","o","w">>})
    THEN "pressure_tactics"
  ELSE IF any({<<"5","0","0","%">>, <<"1","0","0","0","%">>, <<"2","0","0","0","%">>, <<"g","u","a","r","a","n","t","e","e","d">>, <<"g","u","a","r","a","n","t","e","e">>})
    THEN "guaranteed_returns_scam"
  ELSE IF any({<<"i","n","s","i","d","e","r">>, <<"e","x","c","l","u","s","i","v","e">>, <<"s","e","c","r","e","t">>, <<"c","o","n","f","i","d","e","n","t","i","a","l">>})
    THEN "insider_trading_scam"
  ELSE IF any({<<"s","e","b","i">>, <<"c","e","r","t","i","f","i","e","d">>, <<"l","i","c","e","n","s","e","d">>, <<"a","p","p","r","o","v","e","d">>})
    THEN "fake_advisor"
  ELSE _determine_fraud_type(found_keywords, <<>>)
\* _determine_fraud_type_enhanced
_determine_fraud_type_enhanced(text_lower, found_keywords, is_suspicious) ==
  LET any(words) == \E word \in words : contains(text_lower, word) IN
  IF ~is_suspicious THEN "legitimate"
  ELSE IF any({<<"5","0","0","%">>, <<"1","0","0","0","%">>, <<"2","0","0","0","%">>, <<"g","u","a","r","a","n","t","e","e","d">>, <<"g","u","a","r","a","n","t","e","e">>})
    THEN "guaranteed_returns_scam"
  ELSE IF any({<<"u","r","g","e","n","t">>, <<"i","m","m","e","d","i","a","t","e">>, <<"l","i","m","i","t","e","d"," ","t","i","m","e">>, <<"a","c","t"," ","n","o","w">>})
    THEN "pressure_tactics"
  ELSE IF any({<<"i","n","s","i","d","e","r">>, <<"e","x","c","l","u","s","i","v","e">>, <<"s","e","c","r","e","t">>, <<"c","o","n","f","i","d","e","n","t","i","a","l">>})
    THEN "insider_trading_scam"
  ELSE IF any({<<"s","e","b","i">>, <<"c","e","r","t","i","f","i","e","d">>, <<"l","i","c","e","n","s","e","d">>, <<"a","p","p","r","o","v","e","d">>})
    THEN "fake_advisor"
  ELSE _determine_fraud_type(found_keywords, <<>>)

\* _format_found_keywords
RECURSIVE _format_found_keywords(_)
_format_found_keywords(found_keywords) ==
  IF found_keywords = <<>> THEN <<>>
  ELSE Head(found_keywords).keywords \o _format_found_keywords(Tail(found_keywords))

(***************************************************************************)
(* ExplanationGenerator.  An explanation is the template that the code     *)
(* formats, with the values it formats into it.                            *)
(***************************************************************************)
Explanation(template, severity, keywords, patterns, percent) ==
  [template |-> template, severity |-> severity, keywords |-> keywords,
   patterns |-> patterns, percent |-> percent]

LegitimateExplanation ==
  Explanation("Content appears legitimate with no significant fraud indicators detected.",
              "none", 0, 0, 0)

\* _generate_explanation; risk_score is a float
_generate_explanation(found_keywords, pattern_matches, risk_score, is_suspicious) ==
  IF ~is_suspicious THEN LegitimateExplanation
  ELSE LET severity == IF FGt(risk_score, 80) THEN "very high"
                       ELSE IF FGt(risk_score, 60) THEN "high" ELSE "moderate"
       IN  Explanation("Content shows {severity} risk of being fraudulent",
                       severity, keyword_count(found_keywords), Len(pattern_matches), 0)

\* _generate_recommendations; risk_score is a float
_generate_recommendations(fraud_type, is_suspicious, risk_score) ==
  IF ~is_suspicious
    THEN << "Content appears legitimate, but always exercise caution",
            "Verify any investment advice independently",
            "Check advisor credentials before investing" >>
    ELSE << "High fraud risk detected - proceed with extreme caution",
            "Do not share personal or financial information",
            "Verify any claims through official channels" >>
         \o (CASE fraud_type = "fake_advisor" ->
                    << "Verify advisor credentials on SEBI website",
                       "Check for valid SEBI registration number" >>
               [] fraud_type = "guaranteed_returns_scam" ->
                    << "No investment can guarantee returns",
                       "Be wary of unrealistic profit promises" >>
               [] fraud_type = "contact_scam" ->
                    << "Avoid sharing contact details",
                       "Do not join unknown groups or click suspicious links" >>
               [] OTHER -> << >>)
         \o (IF FGt(risk_score, 80)
               THEN << "Consider reporting this content to authorities" >>
               ELSE << >>)

\* _generate_enhanced_recommendations; fraud_probability in hundredths
_generate_enhanced_recommendations(fraud_probability, found_keywords) ==
  IF fraud_probability > 8000
    THEN << "CRITICAL ALERT: This content shows extremely high fraud risk",
            "Do NOT provide any personal or financial information",
            "Do NOT make any payments or investments",
            "Report this content to authorities immediately" >>
  ELSE IF fraud_probability > 6000
    THEN << "HIGH RISK: Exercise extreme caution with this content",
            "Verify all claims through official channels",
            "Do not share personal information",
            "Consult with licensed financial advisors" >>
  ELSE IF fraud_probability > 4000
    THEN << "MEDIUM RISK: Some suspicious patterns detected",
            "Verify the source and claims independently",
            "Be cautious about sharing information",
            "Cross-check with official sources" >>
  ELSE << "Content appears legitimate, but always exercise caution",
          "Verify any investment advice independently",
          "Check advisor credentials before investing" >>

\* a response that caps every confidence_score at 95
_create_analysis_response_capped_confidence(risk_score, confidence_score, fraud_type, is_suspicious, keywords_found, explanation, recommendations) ==
  [risk_score |-> risk_score,
   confidence_score |-> IF confidence_score > 950 THEN 950 ELSE confidence_score,
   fraud_type |-> fraud_type,
   is_suspicious |-> is_suspicious,
   keywords_found |-> keywords_found,
   explanation |-> explanation,
   recommendations |-> recommendations,
   analysis_version |-> "1.0"]
\* _create_analysis_response.  risk_score and confidence_score arrive already
\* rounded to one decimal (round(x, 1)) and are kept in tenths; text_analyzed
\* and analysis_timestamp are left out.
_create_analysis_response(risk_score, confidence_score, fraud_type, is_suspicious, keywords_found, explanation, recommendations) ==
  [risk_score |-> risk_score,
   confidence_score |-> confidence_score,
   fraud_type |-> fraud_type,
   is_suspicious |-> is_suspicious,
   keywords_found |-> keywords_found,
   explanation |-> explanation,
   recommendations |-> recommendations,
   analysis_version |-> "1.0"]

(***************************************************************************)
(* TrustEvaluator.                                                         *)
(***************************************************************************)
\* urllib.parse.urlparse on a URL that starts with http:// or https://: the
\* netloc runs from behind "//" to the first of / ? #; a netloc with an
\* unbalanced square bracket raises ValueError
urlparse(url) ==
  LET start == IF startswith(url, <<"h","t","t","p","s",":","/","/">>) THEN 9 ELSE 8
      stops == {i \in start..Len(url) : url[i] \in {"/", "?", "#"}}
      end   == IF stops = {} THEN Len(url)
               ELSE (CHOOSE i \in stops : \A j \in stops : i <= j) - 1
      netloc == SubSeq(url, start, end)
      has(c) == \E i \in 1..Len(netloc) : netloc[i] = c
  IN  IF has("[") # has("]")
        THEN [exc |-> TRUE, netloc |-> <<>>]
        ELSE [exc |-> FALSE, netloc |-> netloc]

\* `if domain.startswith('www.'): domain = domain[4:]`
strip_www(domain) ==
  IF startswith(domain, <<"w","w","w",".">>) THEN SubSeq(domain, 5, Len(domain)) ELSE domain

\* `domain in self.trusted_domains`, for the netloc of the parsed URL
netloc_is_trusted(parsed_url) ==
  \E domain \in {strip_www(lower(parsed_url.netloc))} :
     \E i \in 1..Len(trusted_domains) :
        /\ Len(trusted_domains[i]) = Len(domain)
        /\ lower(trusted_domains[i]) = domain

\* the outcome of the try block from what urlparse did
trusted_domain_of(parsed_url) ==
  IF parsed_url.exc THEN [exc |-> TRUE, value |-> FALSE]
  ELSE [exc |-> FALSE, value |-> netloc_is_trusted(parsed_url)]

\* the body of the try block of _is_trusted_domain
trusted_domain_lookup(url) ==
  trusted_domain_of(
    urlparse(IF startswith(url, <<"h","t","t","p",":","/","/">>) \/ startswith(url, <<"h","t","t","p","s",":","/","/">>)
               THEN url ELSE <<"h","t","t","p","s",":","/","/">> \o url))

\* the except clause of _is_trusted_domain: a failure of the lookup is False
except_false(r) == IF r.exc THEN [exc |-> FALSE, value |-> FALSE] ELSE r

\* the lookup without the except clause: a failure of urlparse propagates
_is_trusted_domain_unguarded(url) ==
  IF url = <<>> THEN [exc |-> FALSE, value |-> FALSE]
  ELSE trusted_domain_lookup(url)
\* _is_trusted_domain; the empty sequence stands for None and for ""
_is_trusted_domain(url) ==
  IF url = <<>> THEN [exc |-> FALSE, value |-> FALSE]
  ELSE except_false(trusted_domain_lookup(url))

(***************************************************************************)
(* Inputs.  A text is some of the Fragments, in table order, joined by a   *)
(* blank; a source_url is <<>> (None or "") or one of the Urls.            *)
(***************************************************************************)
Fragments ==
  <<
    <<"G","u","a","r","a","n","t","e","e","d"," ","1","0","0","%"," ","r","e","t","u","r","n","s"," ","i","n"," ","3","0"," ","d","a","y","s","!">>,
    <<"J","o","i","n"," ","o","u","r"," ","W","h","a","t","s","A","p","p"," ","g","r","o","u","p"," ","n","o","w","!">>,
    <<"M","u","t","u","a","l"," ","f","u","n","d"," ","i","n","v","e","s","t","m","e","n","t","s"," ","a","r","e"," ","s","u","b","j","e","c","t"," ","t","o"," ","m","a","r","k","e","t"," ","r","i","s","k","s","."," ","P","l","e","a","s","e"," ","r","e","a","d"," ","a","l","l"," ","s","c","h","e","m","e"," ","r","e","l","a","t","e","d"," ","d","o","c","u","m","e","n","t","s"," ","c","a","r","e","f","u","l","l","y",".">>,
    <<"S","E","B","I"," ","r","e","g","i","s","t","e","r","e","d">>,
    <<"g","o","v","e","r","n","m","e","n","t"," ","a","p","p","r","o","v","e","d",","," ","R","B","I"," ","c","e","r","t","i","f","i","e","d"," ","o","f","f","i","c","i","a","l"," ","a","d","v","i","s","o","r">>,
    <<"i","n","s","i","d","e","r"," ","t","i","p">>,
    <<"w","h","a","t","s","a","p","p"," ","m","e",","," ","i","n","v","e","s","t"," ","n","o","w",":"," ","f","r","e","e"," ","t","i","p","s",","," ","R","s"," ","5"," ","l","a","k","h">>,
    <<"h","i">>,
    <<"g","u","a","r","a","n","t","e","e","d"," ","p","r","o","f","i","t",","," ","l","i","m","i","t","e","d"," ","t","i","m","e",","," ","i","n","s","i","d","e","r"," ","t","i","p",","," ","v","i","r","a","l"," ","s","t","o","c","k",","," ","c","a","l","l"," ","n","o","w",","," ","d","o","u","b","l","e"," ","m","o","n","e","y",","," ","t","r","i","p","l","e"," ","r","e","t","u","r","n","s",","," ","i","n","s","t","a","n","t"," ","w","e","a","l","t","h">>,
    <<" "," "," ","b","u","y"," ","n","o","w"," "," "," ">>,
    <<"i","n","s","i","d","e","r"," ","t","i","p",","," ","s","e","c","r","e","t"," ","t","i","p",","," ","g","o","v","e","r","n","m","e","n","t"," ","a","p","p","r","o","v","e","d",","," ","r","b","i"," ","c","e","r","t","i","f","i","e","d",","," ","c","a","l","l"," ","n","o","w",","," ","c","l","i","c","k"," ","l","i","n","k">>,
    <<"p","o","r","t","f","o","l","i","o"," ","d","i","v","e","r","s","i","f","i","c","a","t","i","o","n",","," ","a","s","s","e","t"," ","a","l","l","o","c","a","t","i","o","n",","," ","e","x","p","e","n","s","e"," ","r","a","t","i","o",","," ","f","u","n","d"," ","m","a","n","a","g","e","r",","," ","p","r","o","s","p","e","c","t","u","s",","," ","d","i","s","c","l","o","s","u","r","e">>,
    <<"a","c","t"," ","n","o","w">>,
    <<"d","o","u","b","l","e"," ","m","o","n","e","y",","," ","c","a","l","l"," ","n","o","w">> >>

Urls ==
  <<
    <<"s","e","b","i",".","g","o","v",".","i","n">>,
    <<"h","t","t","p","s",":","/","/","w","w","w",".","S","E","B","I",".","g","o","v",".","i","n","/","i","n","v","e","s","t","o","r","s","?","i","d","=","1">>,
    <<"h","t","t","p","s",":","/","/","s","e","b","i",".","g","o","v",".","i","n",".","e","x","a","m","p","l","e",".","c","o","m","/">>,
    <<"h","t","t","p",":","/","/","[","s","e","b","i",".","g","o","v",".","i","n">>,
    <<"h","t","t","p","s",":","/","/","s","e","b","i",".","g","o","v",".","i","n",":","4","4","3","/","i","n","v","e","s","t","o","r","s">> >>

\* the fragments ids[1], ids[2], ... joined by " "
RECURSIVE Join(_)
Join(ids) ==
  IF ids = <<>> THEN <<>>
  ELSE IF Len(ids) = 1 THEN Fragments[ids[1]]
  ELSE Fragments[ids[1]] \o <<" ">> \o Join(Tail(ids))

\* the members of a set of fragment numbers, in increasing order
RECURSIVE Sorted(_)
Sorted(s) ==
  IF s = {} THEN <<>>
  ELSE LET m == CHOOSE i \in s : \A j \in s : i <= j IN <<m>> \o Sorted(s \ {m})

TextOf(s) == Join(Sorted(s))

FragmentSets == {s \in SUBSET (1..Len(Fragments)) : Cardinality(s) <= MaxFrags}

(***************************************************************************)
(* The three scans of the lowered text, tabulated once for the texts of    *)
(* the model.                                                              *)
(***************************************************************************)
Scan(text_lower) ==
  [text_lower |-> text_lower,
   found_keywords |-> _find_fraud_keywords(text_lower),
   pattern_matches |-> _find_pattern_matches(text_lower),
   legitimate_score |-> _calculate_legitimate_score(text_lower)]

ScanTable == {Scan(lower(TextOf(s))) : s \in FragmentSets}

ScanOf(text_lower) == CHOOSE e \in ScanTable : e.text_lower = text_lower

find_fraud_keywords(text_lower) == ScanOf(text_lower).found_keywords

find_pattern_matches(text_lower) == ScanOf(text_lower).pattern_matches

calculate_legitimate_score(text_lower) == ScanOf(text_lower).legitimate_score

(***************************************************************************)
(* ClassifierAdapter: the artifact and its loading.  A Python dict is its  *)
(* set of <<key, value>> items; the values that matter are "obj" (some     *)
(* object) and "None".                                                     *)
(***************************************************************************)
PyNone == [none |-> TRUE, items |-> {}]
Dict(items) == [none |-> FALSE, items |-> items]
\* the Python expression `key in d`
HasKey(d, key) == \E p \in d.items : p[1] = key
\* d[key]
Get(d, key) == (CHOOSE p \in d.items : p[1] = key)[2]
\* truth value of None or a dict
Truthy(d) == ~d.none /\ d.items # {}

\* what a candidate path holds: nothing, a pickle that fails to load, a
\* pickled dict, or a pickled object that is no dict
Absent == [exists |-> FALSE, loads |-> FALSE, is_dict |-> FALSE, items |-> {}]
Corrupt == [exists |-> TRUE, loads |-> FALSE, is_dict |-> FALSE, items |-> {}]
PickledDict(items) == [exists |-> TRUE, loads |-> TRUE, is_dict |-> TRUE, items |-> items]
PickledObject == [exists |-> TRUE, loads |-> TRUE, is_dict |-> FALSE, items |-> {}]

\* a loader that takes the last candidate path that exists
_load_enhanced_model_last_existing(paths) ==
  LET existing == {i \in 1..Len(paths) : paths[i].exists} IN
  IF existing = {} THEN PyNone
  ELSE LET model_data == paths[CHOOSE i \in existing : \A j \in existing : i >= j] IN
       IF ~model_data.loads THEN PyNone
       ELSE IF model_data.is_dict /\ HasKey(Dict(model_data.items), "ensemble_model")
         THEN Dict(model_data.items)
         ELSE Dict({<<"basic_model", "obj">>, <<"tfidf_vectorizer", "None">>})
\* _load_enhanced_model; paths[1..3] are backend fraud_model.pkl,
\* models/enhanced_fraud_model.pkl, models/fraud_model.pkl
_load_enhanced_model(paths) ==
  LET existing == {i \in 1..Len(paths) : paths[i].exists} IN
  IF existing = {} THEN PyNone
  ELSE LET model_data == paths[CHOOSE i \in existing : \A j \in existing : i <= j] IN
       IF ~model_data.loads THEN PyNone
       ELSE IF model_data.is_dict /\ HasKey(Dict(model_data.items), "ensemble_model")
         THEN Dict(model_data.items)
         ELSE Dict({<<"basic_model", "obj">>, <<"tfidf_vectorizer", "None">>})

\* What the loaded vectorizer and ensemble do with one text: whether
\* transform, predict or predict_proba raises, the predicted label and the
\* probability vector (class probabilities times 100, in hundredths).
Classifier(transform_raises, predict_raises, proba_raises, prediction, probabilities) ==
  [transform_raises |-> transform_raises, predict_raises |-> predict_raises,
   proba_raises |-> proba_raises, prediction |-> prediction,
   probabilities |-> probabilities]

\* an inference that accepts a one-element probability vector and reads
\* its only element
ml_inference_any_vector(model, clf) ==
  LET raise == [exc |-> TRUE, ml_prediction |-> 0, fraud_probability |-> 0] IN
  IF ~Truthy(model) \/ ~HasKey(model, "ensemble_model")
       \/ ~HasKey(model, "tfidf_vectorizer") THEN raise
  ELSE IF Get(model, "ensemble_model") = "None"
            \/ Get(model, "tfidf_vectorizer") = "None" THEN raise
  ELSE IF clf.transform_raises \/ clf.predict_raises \/ clf.proba_raises THEN raise
  ELSE [exc |-> FALSE, ml_prediction |-> clf.prediction,
        fraud_probability |-> clf.probabilities[Len(clf.probabilities)]]
\* lines 200-222 of _analyze_with_enhanced_model: validate the components,
\* transform, predict, predict_proba, read the class-1 probability
ml_inference(model, clf) ==
  LET raise == [exc |-> TRUE, ml_prediction |-> 0, fraud_probability |-> 0] IN
  IF ~Truthy(model) \/ ~HasKey(model, "ensemble_model")
       \/ ~HasKey(model, "tfidf_vectorizer") THEN raise
  ELSE IF Get(model, "ensemble_model") = "None"
            \/ Get(model, "tfidf_vectorizer") = "None" THEN raise
  ELSE IF clf.transform_raises \/ clf.predict_raises \/ clf.proba_raises THEN raise
  ELSE IF Len(clf.probabilities) < 2 THEN raise
  ELSE [exc |-> FALSE, ml_prediction |-> clf.prediction,
        fraud_probability |-> clf.probabilities[2]]

\* round(x, 1) of a probability of h hundredths, in tenths (the modelled
\* probabilities have no h ending in 5)
RoundProbability(h) == (h + 5) \div 10

(***************************************************************************)
(* ScoreCombiner: the two analysis paths and analyze_text.  Each returns   *)
(* [exc, value, evaluated]: whether it raised, the response, and the       *)
(* components it ran.                                                      *)
(***************************************************************************)
NoResponse ==
  _create_analysis_response(0, 0, "", FALSE, <<>>, LegitimateExplanation, <<>>)

Returned(value, evaluated) == [exc |-> FALSE, value |-> value, evaluated |-> evaluated]
Raised(evaluated) == [exc |-> TRUE, value |-> NoResponse, evaluated |-> evaluated]

\* the trust-aware decision without its trusted branch
keyword_is_suspicious_by_score(is_trusted_domain, base_risk_score) ==
  FGt(base_risk_score, 50)
\* is_suspicious of _analyze_with_keywords: False for a trusted domain,
\* base_risk_score > 50 otherwise
keyword_is_suspicious(is_trusted_domain, base_risk_score) ==
  IF is_trusted_domain THEN FALSE ELSE FGt(base_risk_score, 50)

\* a fraud_type that takes no notice of the trusted domain
keyword_fraud_type_untrusted(is_trusted_domain, base_risk_score, found_keywords, pattern_matches) ==
  _determine_fraud_type(found_keywords, pattern_matches)
\* fraud_type of _analyze_with_keywords
keyword_fraud_type(is_trusted_domain, base_risk_score, found_keywords, pattern_matches) ==
  IF is_trusted_domain
    THEN IF FLt(base_risk_score, 40) THEN "legitimate" ELSE "low_risk"
    ELSE _determine_fraud_type(found_keywords, pattern_matches)

\* a risk_score that is not capped for a trusted domain
keyword_final_risk_score_uncapped(is_trusted_domain, base_risk_score) ==
  base_risk_score
\* the risk_score that _analyze_with_keywords reports: capped at 20 or 35
\* for a trusted domain
keyword_final_risk_score(is_trusted_domain, base_risk_score) ==
  IF is_trusted_domain
    THEN IF FLt(base_risk_score, 40) THEN FMinInt(base_risk_score, 20)
         ELSE FMinInt(base_risk_score, 35)
    ELSE base_risk_score

\* the explanation, the recommendations and the response of
\* _analyze_with_keywords from what it decided
keyword_report(found_keywords, pattern_matches, risk_score, confidence_score, fraud_type, is_suspicious) ==
  _create_analysis_response(
    FRoundTenths(risk_score), RoundConfidence(confidence_score),
    fraud_type, is_suspicious, _format_found_keywords(found_keywords),
    _generate_explanation(found_keywords, pattern_matches, risk_score, is_suspicious),
    _generate_recommendations(fraud_type, is_suspicious, risk_score))

\* the trust-aware decision of _analyze_with_keywords on base_risk_score
keyword_decision(is_trusted_domain, found_keywords, pattern_matches, base_risk_score, confidence_score) ==
  keyword_report(found_keywords, pattern_matches,
                 keyword_final_risk_score(is_trusted_domain, base_risk_score),
                 confidence_score,
                 keyword_fraud_type(is_trusted_domain, base_risk_score, found_keywords,
                                    pattern_matches),
                 keyword_is_suspicious(is_trusted_domain, base_risk_score))

\* a base_risk_score whose pattern part is capped at 50
keyword_base_risk_score_capped_patterns(text_lower, domain_trust_reduction, found_keywords, pattern_matches) ==
  FSubClamp(FAdd(_calculate_keyword_risk_score(found_keywords),
                 FInt(Min(50, SumSeq([i \in 1..Len(pattern_matches) |->
                                        pattern_matches[i].risk_score])))),
            calculate_legitimate_score(text_lower) + domain_trust_reduction)
\* base_risk_score = max(0, min(keyword_risk_score + pattern_risk_score
\*                               - total_trust_reduction, 100))
keyword_base_risk_score(text_lower, domain_trust_reduction, found_keywords, pattern_matches) ==
  FSubClamp(FAdd(_calculate_keyword_risk_score(found_keywords),
                 FInt(SumSeq([i \in 1..Len(pattern_matches) |->
                                pattern_matches[i].risk_score]))),
            calculate_legitimate_score(text_lower) + domain_trust_reduction)

\* _analyze_with_keywords behind the two scans: the scores, the trust-aware
\* decision, the explanation and the response
keyword_response(text, text_lower, is_trusted_domain, domain_trust_reduction, found_keywords, pattern_matches) ==
  keyword_decision(is_trusted_domain, found_keywords, pattern_matches,
                   keyword_base_risk_score(text_lower, domain_trust_reduction,
                                           found_keywords, pattern_matches),
                   _calculate_confidence_score(found_keywords, pattern_matches, Len(text)))

\* _analyze_with_keywords
_analyze_with_keywords(text, text_lower, source, is_trusted_domain, domain_trust_reduction) ==
  Returned(keyword_response(text, text_lower, is_trusted_domain, domain_trust_reduction,
                            find_fraud_keywords(text_lower),
                            find_pattern_matches(text_lower)),
           {"keywords", "patterns", "legitimate"})

\* the decision, the explanation and the response of
\* _analyze_with_enhanced_model (lines 232-287); probabilities are in
\* hundredths
enhanced_report(text_lower, is_trusted_domain, ml_prediction, adjusted_fraud_probability, found_keywords) ==
  LET final_risk_score == adjusted_fraud_probability
      ml_suspicious    == /\ ml_prediction = 1
                          /\ adjusted_fraud_probability > 6000
                          /\ ~is_trusted_domain
      is_suspicious    == IF is_trusted_domain THEN FALSE ELSE ml_suspicious
      fraud_type       == IF is_trusted_domain
                            THEN IF adjusted_fraud_probability < 3000 THEN "legitimate"
                                 ELSE "low_risk"
                            ELSE _determine_fraud_type_enhanced(text_lower, found_keywords,
                                                                is_suspicious)
      percent          == RoundProbability(adjusted_fraud_probability)
      explanation      ==
        IF is_trusted_domain
          THEN Explanation("Content from trusted domain. Risk assessment: {percent}%. Domain verification provides additional security.",
                           "trusted", 0, 0, percent)
        ELSE IF adjusted_fraud_probability > 8000
          THEN Explanation("High fraud risk detected by ML model ({percent}% confidence). Found {keywords} fraud-related keywords.",
                           "high", keyword_count(found_keywords), 0, percent)
        ELSE IF adjusted_fraud_probability > 6000
          THEN Explanation("Medium fraud risk detected by ML model ({percent}% confidence). Exercise caution.",
                           "medium", 0, 0, percent)
        ELSE IF adjusted_fraud_probability > 4000
          THEN Explanation("Some suspicious patterns detected ({percent}% risk). Verify independently.",
                           "some", 0, 0, percent)
        ELSE LegitimateExplanation
      recommendations  ==
        (IF is_trusted_domain THEN << "Content verified from trusted regulatory domain" >>
                              ELSE << >>)
        \o _generate_enhanced_recommendations(adjusted_fraud_probability, found_keywords)
  IN  _create_analysis_response(
        RoundProbability(final_risk_score), RoundProbability(adjusted_fraud_probability),
        fraud_type, is_suspicious, _format_found_keywords(found_keywords),
        explanation, recommendations)

\* a combination that adds ten points per keyword found to the probability
enhanced_response_with_keywords(text_lower, is_trusted_domain, domain_trust_reduction, inference) ==
  enhanced_report(text_lower, is_trusted_domain, inference.ml_prediction,
                  Max(0, inference.fraud_probability - 100 * domain_trust_reduction)
                    + 1000 * keyword_count(find_fraud_keywords(text_lower)),
                  find_fraud_keywords(text_lower))
\* the statements of _analyze_with_enhanced_model behind a successful
\* inference: the keywords for the explanation and the adjusted probability
enhanced_response(text_lower, is_trusted_domain, domain_trust_reduction, inference) ==
  enhanced_report(text_lower, is_trusted_domain, inference.ml_prediction,
                  Max(0, inference.fraud_probability - 100 * domain_trust_reduction),
                  find_fraud_keywords(text_lower))

\* a fallback that forgets what the trust evaluation found
fallback_without_trust(text, text_lower, source, is_trusted_domain, domain_trust_reduction) ==
  _analyze_with_keywords(text, text_lower, source, FALSE, 0)
\* the except clause of _analyze_with_enhanced_model: the keyword analysis
\* with the arguments of the failed call
fallback_after_failure(text, text_lower, source, is_trusted_domain, domain_trust_reduction) ==
  _analyze_with_keywords(text, text_lower, source, is_trusted_domain,
                         domain_trust_reduction)

\* self.ml_model behind the except clause, which assigns nothing
ml_model_after_inference_disabling(m, inference) ==
  IF inference.exc THEN PyNone ELSE m
\* self.ml_model behind the try/except of _analyze_with_enhanced_model:
\* neither the try block nor the except clause assigns it
ml_model_after_inference(m, inference) == m

\* the outcome r of a call, with the components that ran before it
AlsoRan(components, r) == [r EXCEPT !.evaluated = @ \cup components]

\* the try block of _analyze_with_enhanced_model behind the inference, and
\* the except that falls back to the keyword analysis
enhanced_or_fallback(text, text_lower, source, is_trusted_domain, domain_trust_reduction, inference) ==
  IF ~inference.exc
    THEN Returned(enhanced_response(text_lower, is_trusted_domain,
                                    domain_trust_reduction, inference),
                  {"classifier", "keywords"})
    ELSE AlsoRan({"classifier"},
                 fallback_after_failure(text, text_lower, source,
                                        is_trusted_domain, domain_trust_reduction))

\* _analyze_with_enhanced_model
_analyze_with_enhanced_model(text, text_lower, source, is_trusted_domain, domain_trust_reduction, model, clf) ==
  enhanced_or_fallback(text, text_lower, source, is_trusted_domain,
                       domain_trust_reduction, ml_inference(model, clf))

\* the guard on the length of the text as given
too_short_untrimmed(text) == text = <<>> \/ Len(text) < 10
\* the guard of analyze_text: `not text or len(text.strip()) < 10`
too_short(text) == text = <<>> \/ Len(strip(text)) < 10

\* the response of the guard
insufficient_content ==
  _create_analysis_response(
    0, 0, "insufficient_content", FALSE, <<>>,
    Explanation("Content too short for analysis", "none", 0, 0, 0), <<>>)

\* the choice of the path (lines 186-195): the enhanced model when one is
\* loaded, the keyword analysis otherwise
analyze_on_path(text, text_lower, source, is_trusted_domain, domain_trust_reduction, model, clf) ==
  IF Truthy(model) /\ HasKey(model, "ensemble_model")
    THEN _analyze_with_enhanced_model(text, text_lower, source, is_trusted_domain,
                                      domain_trust_reduction, model, clf)
    ELSE _analyze_with_keywords(text, text_lower, source, is_trusted_domain,
                                domain_trust_reduction)

\* analyze_text behind the trust evaluation (lines 183-195)
analyze_with_trust(text, source, ran_trust, trust, model, clf) ==
  IF trust.exc THEN Raised(ran_trust)
  ELSE AlsoRan(ran_trust,
               analyze_on_path(text, lower(text), source, trust.value,
                               IF trust.value THEN 60 ELSE 0, model, clf))

\* analyze_text of ContentAnalysisService.  model is self.ml_model, clf is
\* what the artifact does with this text; source_url <<>> is None or "".
analyze_text(text, source, source_url, model, clf) ==
  IF too_short(text)
    THEN Returned(insufficient_content, {})
  ELSE analyze_with_trust(text, source,
                          IF source_url # <<>> THEN {"trust"} ELSE {},
                          IF source_url # <<>> THEN _is_trusted_domain(source_url)
                          ELSE [exc |-> FALSE, value |-> FALSE],
                          model, clf)

(***************************************************************************)
(* The artifacts that may lie at the three candidate paths, and what a     *)
(* loaded classifier may do with a text.                                   *)
(***************************************************************************)
GoodBundle ==
  PickledDict({<<"ensemble_model", "obj">>, <<"tfidf_vectorizer", "obj">>,
               <<"test_accuracy", "obj">>})
NoVectorizerKey == PickledDict({<<"ensemble_model", "obj">>})
NoneVectorizer == PickledDict({<<"ensemble_model", "obj">>, <<"tfidf_vectorizer", "None">>})
NoneEnsemble == PickledDict({<<"ensemble_model", "None">>, <<"tfidf_vectorizer", "obj">>})
LegacyDict == PickledDict({<<"model", "obj">>})

ArtifactSituations ==
  { <<Absent, Absent, Absent>>,
    <<GoodBundle, Absent, Absent>>,
    <<Absent, GoodBundle, PickledObject>>,
    <<Absent, Absent, PickledObject>>,
    <<PickledObject, GoodBundle, Absent>>,
    <<LegacyDict, Absent, GoodBundle>>,
    <<Corrupt, GoodBundle, Absent>>,
    <<NoVectorizerKey, Absent, Absent>>,
    <<NoneVectorizer, Absent, Absent>>,
    <<NoneEnsemble, Absent, Absent>> }

\* class-1 probabilities times 100, in hundredths
ProbValues == {0, 3004, 6000, 6004, 9400, 10000}

\* the classifier is not reached, or its behaviour does not matter
NoClassifier == Classifier(FALSE, FALSE, FALSE, 0, <<10000, 0>>)

ClassifierOutcomes ==
  { Classifier(FALSE, FALSE, FALSE, label, <<10000 - p, p>>) :
      label \in {0, 1}, p \in ProbValues }
  \cup { Classifier(TRUE, FALSE, FALSE, 0, <<10000, 0>>),
         Classifier(FALSE, TRUE, FALSE, 0, <<10000, 0>>),
         Classifier(FALSE, FALSE, TRUE, 0, <<10000, 0>>),
         Classifier(FALSE, FALSE, FALSE, 1, <<10000>>) }

\* does analyze_text hand the text to the enhanced path
UsesEnhancedPath(m) == Truthy(m) /\ HasKey(m, "ensemble_model")

\* are both components of the artifact there, so that the classifier runs
ComponentsLoaded(m) ==
  /\ UsesEnhancedPath(m) /\ HasKey(m, "tfidf_vectorizer")
  /\ Get(m, "ensemble_model") # "None" /\ Get(m, "tfidf_vectorizer") # "None"

SourceUrls == {<<>>} \cup {Urls[i] : i \in 1..Len(Urls)}
Sources == {"manual"}

(***************************************************************************)
(* State.                                                                  *)
(***************************************************************************)
VARIABLES
  model_paths,      \* what lies at the three candidate artifact paths
  ml_model,         \* ContentAnalysisService.ml_model
  pc,               \* SpecFn: "ready", "analyzed", "extended"
  request,          \* the arguments of the analyze_text call
  outcome,          \* what the call returned
  reference,        \* what a service without artifact returns for them
  added,            \* the same call on the text with one more keyword
  classifier,       \* Spec, SpecPar: what the artifact does with each text
  flagged_content,  \* the flagged-content store of DashboardService
  served,           \* Spec: requests served so far
  response,         \* Spec: the response to the last request
  history,          \* Spec: the analyze_text calls made, with their results
  calls             \* SpecPar: the analyze_text call of each thread

vars == <<model_paths, ml_model, pc, request, outcome, reference, added,
          classifier, flagged_content, served, response, history, calls>>

Request(fragments, source, source_url, clf) ==
  [fragments |-> fragments, source |-> source, source_url |-> source_url, clf |-> clf]

NoRequest == Request({}, "manual", <<>>, NoClassifier)
NoOutcome == Returned(NoResponse, {})
NoAdded == [fragment |-> 0, outcome |-> NoOutcome]

serviceVars == <<classifier, flagged_content, served, response, history, calls>>
fnVars == <<pc, request, outcome, reference, added>>

\* the texts and URLs of the requests in Spec and SpecPar
ClassifiedTexts == {{1, 2}, {3}, {1, 7}}
ServiceTexts == ClassifiedTexts \cup {{8}, {10}}
PageTexts == {{1, 2}, {1, 7}, {8}}
BatchTexts == {{1, 2}, {3}, {8}}
ServiceUrls == {Urls[1]}
ServiceSituations ==
  { <<Absent, Absent, Absent>>, <<Absent, Absent, PickledObject>>,
    <<Absent, GoodBundle, Absent>> }
ServiceOutcomes ==
  { Classifier(FALSE, TRUE, FALSE, 0, <<10000, 0>>),
    Classifier(FALSE, FALSE, FALSE, 1, <<7000, 3000>>),
    Classifier(FALSE, FALSE, FALSE, 1, <<600, 9400>>) }
\* the artifacts that may be deployed while the service runs
DeployedArtifacts == {GoodBundle, LegacyDict}

NoResponseYet == [status |-> 0, results |-> <<>>, flagged |-> <<>>]
NoCall == [pc |-> "idle", fragments |-> {}, source_url |-> <<>>, text_lower |-> <<>>,
           is_trusted_domain |-> FALSE, inference |-> [exc |-> TRUE, ml_prediction |-> 0, fraud_probability |-> 0],
           found_keywords |-> <<>>, pattern_matches |-> <<>>, value |-> NoResponse]
Threads == {1, 2}

\* the variables of Spec and SpecPar while SpecFn runs
ServiceIdle ==
  /\ classifier = [s \in ClassifiedTexts |-> NoClassifier]
  /\ flagged_content = <<>>
  /\ served = 0
  /\ response = NoResponseYet
  /\ history = <<>>
  /\ calls = [t \in Threads |-> NoCall]

\* the variables of SpecFn while Spec or SpecPar runs
FnIdle ==
  /\ pc = "ready"
  /\ request = NoRequest
  /\ outcome = NoOutcome
  /\ reference = NoOutcome
  /\ added = NoAdded

\* the fragments that are, lowered, a keyword of the KeywordBank
KeywordFragments ==
  {f \in 1..Len(Fragments) :
     \E i \in 1..Len(fraud_keywords) :
        InList(lower(Fragments[f]), fraud_keywords[i].keywords)}

(***************************************************************************)
(* SpecFn: one service, one analyze_text call on inputs drawn from the     *)
(* bounded sets, and the call repeated on the text with a keyword added.   *)
(***************************************************************************)
\* ContentAnalysisService.__init__
Construct ==
  /\ model_paths \in ArtifactSituations
  /\ ml_model = _load_enhanced_model(model_paths)

InitFn ==
  /\ Construct
  /\ pc = "ready"
  /\ request = NoRequest
  /\ outcome = NoOutcome
  /\ reference = NoOutcome
  /\ added = NoAdded
  /\ ServiceIdle

Analyze(s, source, source_url, clf) ==
  /\ pc = "ready"
  /\ pc' = "analyzed"
  /\ request' = Request(s, source, source_url, clf)
  /\ outcome' = analyze_text(TextOf(s), source, source_url, ml_model, clf)
  /\ reference' = analyze_text(TextOf(s), source, source_url, PyNone, clf)
  /\ UNCHANGED <<model_paths, ml_model, added>>
  /\ UNCHANGED serviceVars

AddKeywordOccurrence(f) ==
  /\ pc = "analyzed"
  /\ ~UsesEnhancedPath(ml_model)
  /\ f \notin request.fragments
  /\ Cardinality(request.fragments) < MaxFrags
  /\ pc' = "extended"
  /\ added' = [fragment |-> f,
               outcome |-> analyze_text(TextOf(request.fragments \cup {f}), request.source,
                                        request.source_url, ml_model, request.clf)]
  /\ UNCHANGED <<model_paths, ml_model, request, outcome, reference>>
  /\ UNCHANGED serviceVars

NextFn ==
  \/ \E s \in FragmentSets, source \in Sources, source_url \in SourceUrls :
       \E clf \in (IF ComponentsLoaded(ml_model) THEN ClassifierOutcomes
                   ELSE {NoClassifier}) :
          Analyze(s, source, source_url, clf)
  \/ \E f \in KeywordFragments : AddKeywordOccurrence(f)

SpecFn == InitFn /\ [][NextFn]_vars

\* the text of the analyzed request
RequestText == TextOf(request.fragments)
ResultFields ==
  {"risk_score", "confidence_score", "fraud_type", "is_suspicious",
   "keywords_found", "explanation", "recommendations"}
InRange(value) ==
  /\ 0 <= value.risk_score /\ value.risk_score <= 1000
  /\ 0 <= value.confidence_score /\ value.confidence_score <= 1000
ClassifierRaises(clf) == clf.transform_raises \/ clf.predict_raises \/ clf.proba_raises

\* C1: whatever the text, the source_url and the classifier situation, the
\* risk_score and the confidence_score of a result of analyze_text lie in
\* [0, 100] (scores are in tenths).
ScoresInRange ==
  /\ (pc # "ready" /\ ~outcome.exc) => InRange(outcome.value)
  /\ (pc = "extended" /\ ~added.outcome.exc) => InRange(added.outcome.value)

\* the lexical path reaches the upper bound, with keywords and patterns
\* that add up to more than 100
ScoresInRangeWitness ==
  /\ pc = "analyzed" /\ ~UsesEnhancedPath(ml_model) /\ request.source_url = <<>>
  /\ request.fragments = {1, 7}
  /\ outcome.value.risk_score = 1000

\* C2: for a text of trimmed length >= 10 and a source_url that
\* _is_trusted_domain accepts, analyze_text returns is_suspicious = false on
\* the classifier path, the lexical path and the fallback after a failure.
TrustDominance ==
  (/\ pc # "ready" /\ Len(strip(RequestText)) >= 10
   /\ _is_trusted_domain(request.source_url).value)
  => (~outcome.exc /\ ~outcome.value.is_suspicious)

\* a trusted URL with a text whose lexical score is far above 50, scored by
\* the fallback after a classifier failure
TrustDominanceWitness ==
  /\ pc = "analyzed" /\ _is_trusted_domain(request.source_url).value
  /\ ComponentsLoaded(ml_model) /\ request.clf.predict_raises
  /\ request.fragments = {1, 7}
  /\ outcome.value.risk_score = 350 /\ ~outcome.value.is_suspicious

\* C3: when the artifact is loaded and transform, predict or predict_proba
\* raises, analyze_text returns a result whose risk_score, confidence_score,
\* fraud_type, is_suspicious and keywords_found are those of a service
\* without artifact for the same text and source_url.
GracefulDegradation ==
  (pc # "ready" /\ ComponentsLoaded(ml_model) /\ ClassifierRaises(request.clf))
  => /\ ~outcome.exc /\ ~reference.exc
     /\ outcome.value.risk_score = reference.value.risk_score
     /\ outcome.value.confidence_score = reference.value.confidence_score
     /\ outcome.value.fraud_type = reference.value.fraud_type
     /\ outcome.value.is_suspicious = reference.value.is_suspicious
     /\ outcome.value.keywords_found = reference.value.keywords_found

\* a failing transform on a text from a trusted URL, where the fallback
\* has to carry the trust reduction
GracefulDegradationWitness ==
  /\ pc = "analyzed" /\ ComponentsLoaded(ml_model) /\ request.clf.transform_raises
  /\ _is_trusted_domain(request.source_url).value
  /\ "classifier" \in outcome.evaluated /\ "patterns" \in outcome.evaluated
  /\ outcome.value.keywords_found # <<>>
  /\ outcome.value.fraud_type = "low_risk"

\* C4: analyze_text never raises: for every text, every source_url, a
\* malformed one included, and every classifier situation the call returns a
\* result with the seven fields.
NeverRaises ==
  /\ pc # "ready" => /\ ~outcome.exc
                     /\ ResultFields \subseteq DOMAIN outcome.value
                     /\ outcome.value.fraud_type # ""
  /\ pc = "extended" => /\ ~added.outcome.exc
                        /\ ResultFields \subseteq DOMAIN added.outcome.value
                        /\ added.outcome.value.fraud_type # ""

\* a URL that urlparse rejects, with a loaded classifier that throws
NeverRaisesWitness ==
  /\ pc = "analyzed" /\ request.source_url = Urls[4]
  /\ trusted_domain_lookup(request.source_url).exc
  /\ ComponentsLoaded(ml_model) /\ request.clf.proba_raises
  /\ Len(strip(RequestText)) >= 10
  /\ ~outcome.exc

\* C5: for an empty text or one of trimmed length below 10, analyze_text
\* returns insufficient_content, risk 0, confidence 0, not suspicious and no
\* keywords, and evaluates neither trust, keywords, patterns nor the
\* classifier, whatever the source_url and the artifact.
ShortTextGuard ==
  (pc # "ready" /\ (RequestText = <<>> \/ Len(strip(RequestText)) < 10))
  => /\ ~outcome.exc
     /\ outcome.value.fraud_type = "insufficient_content"
     /\ outcome.value.risk_score = 0
     /\ outcome.value.confidence_score = 0
     /\ ~outcome.value.is_suspicious
     /\ outcome.value.keywords_found = <<>>
     /\ outcome.evaluated = {}

\* a text of 13 characters that trims to 7, a keyword in it, a trusted URL
\* and a loaded classifier
ShortTextGuardWitness ==
  /\ pc = "analyzed" /\ request.fragments = {10}
  /\ Len(RequestText) >= 10 /\ Len(strip(RequestText)) < 10
  /\ _is_trusted_domain(request.source_url).value
  /\ ComponentsLoaded(ml_model)
  /\ outcome.value.fraud_type = "insufficient_content"

\* C6: in lexical-only mode, with source_url fixed, the risk_score of a text
\* with an occurrence of a fraud keyword added is at least the risk_score of
\* the text.
KeywordMonotonicity ==
  (pc = "extended" /\ ~outcome.exc /\ ~added.outcome.exc)
  => added.outcome.value.risk_score >= outcome.value.risk_score

(***************************************************************************)
(* Spec: one service behind the three endpoints of routers/scanner.py,     *)
(* serving requests one after the other.                                   *)
(***************************************************************************)
\* analyze_text, tabulated once for the requests of Spec and SpecPar
EngineTable ==
  { [fragments |-> s, source |-> src, source_url |-> u, model |-> m, clf |-> c,
     result |-> analyze_text(TextOf(s), src, u, m, c)] :
    s \in ServiceTexts, src \in Sources, u \in ServiceUrls \cup {<<>>},
    m \in {_load_enhanced_model(p) : p \in ServiceSituations} \cup {PyNone},
    c \in ServiceOutcomes \cup {NoClassifier} }

\* content_service.analyze_text on the text of fragments s
engine(s, source, source_url, m, clf) ==
  (CHOOSE e \in EngineTable :
     /\ e.fragments = s /\ e.source = source /\ e.source_url = source_url
     /\ e.model = m /\ e.clf = clf).result

\* what the artifact does with the text of fragments s
classifier_on(s) == IF s \in DOMAIN classifier THEN classifier[s] ELSE NoClassifier

\* did the call fall back to the keyword analysis after a failed inference
FellBack(o) == {"classifier", "patterns"} \subseteq o.evaluated

\* a service that gives up its classifier after a failed inference
ml_model_after_call_disabling(m, paths, o) == IF FellBack(o) THEN PyNone ELSE m
\* self.ml_model behind an analyze_text call that returned o: no statement
\* of analyze_text or of the methods it calls assigns an attribute of self
ml_model_after_call(m, paths, o) == m

\* the check `not text or len(text.strip()) < 5` of the endpoints
router_too_short(text) == text = <<>> \/ Len(strip(text)) < 5

\* DashboardService.add_flagged_content; a failure of the store is caught
\* and nothing is stored
add_flagged_content(store, content_data, db_ok) ==
  IF db_ok THEN Append(store, content_data) ELSE store

FlaggedRecord(content, source, value) ==
  [content |-> content, source |-> source, fraud_type |-> value.fraud_type,
   risk_score |-> value.risk_score, confidence_score |-> value.confidence_score,
   keywords_found |-> value.keywords_found]

\* a threshold that lets a risk_score of 30 through
flag_condition_inclusive(value) == value.risk_score >= 300
\* the flagging condition of /analyze-text and /analyze-url:
\* risk_score > 30 (scores are in tenths)
flag_condition(value) == value.risk_score > 300

\* the flagging condition of /batch-analyze: is_suspicious, and risk_score > 30
batch_flag_condition(value) == value.is_suspicious /\ flag_condition(value)

HistoryEntry(s, source, source_url, o) ==
  [fragments |-> s, source |-> source, source_url |-> source_url,
   risk_score |-> o.value.risk_score, fraud_type |-> o.value.fraud_type,
   is_suspicious |-> o.value.is_suspicious, evaluated |-> o.evaluated]

Init ==
  /\ model_paths \in ServiceSituations
  /\ ml_model = _load_enhanced_model(model_paths)
  /\ classifier \in IF ComponentsLoaded(ml_model)
                      THEN [ClassifiedTexts -> ServiceOutcomes]
                      ELSE {[s \in ClassifiedTexts |-> NoClassifier]}
  /\ flagged_content = <<>>
  /\ served = 0
  /\ response = NoResponseYet
  /\ history = <<>>
  /\ calls = [t \in Threads |-> NoCall]
  /\ FnIdle

\* a request that is answered without a call of the engine
Reject(status) ==
  /\ response' = [status |-> status, results |-> <<>>, flagged |-> <<>>]
  /\ UNCHANGED <<ml_model, flagged_content, history>>

\* the part of /analyze-text and /analyze-url behind their checks: the call
\* of the engine, the flagging and the response
AnalyzeAndFlag(s, source, source_url, flag_source, db_ok) ==
  \E o \in {engine(s, source, source_url, ml_model, classifier_on(s))} :
     LET content_data == FlaggedRecord(s, flag_source, o.value)
         flags == ~o.exc /\ flag_condition(o.value)
     IN  /\ ml_model' = ml_model_after_call(ml_model, model_paths, o)
         /\ history' = Append(history, HistoryEntry(s, source, source_url, o))
         /\ flagged_content' = IF flags
                                 THEN add_flagged_content(flagged_content, content_data, db_ok)
                                 ELSE flagged_content
         /\ response' = IF o.exc
                          THEN [status |-> 500, results |-> <<>>, flagged |-> <<>>]
                          ELSE [status |-> 200, results |-> <<o.value>>,
                                flagged |-> IF flags THEN <<content_data>> ELSE <<>>]

\* POST /analyze-text
AnalyzeTextEndpoint(s, source, db_ok) ==
  /\ served < MaxCalls
  /\ served' = served + 1
  /\ IF router_too_short(TextOf(s)) THEN Reject(400)
     ELSE AnalyzeAndFlag(s, source, <<>>, source, db_ok)
  /\ UNCHANGED <<model_paths, classifier, calls>>
  /\ UNCHANGED fnVars

\* POST /analyze-url; page is the text extracted from the fetched page
AnalyzeUrlEndpoint(url, source, page, fetched, db_ok) ==
  /\ served < MaxCalls
  /\ served' = served + 1
  /\ IF url = <<>> \/ ~fetched \/ Len(TextOf(page)) < 50 THEN Reject(400)
     ELSE AnalyzeAndFlag(page, source, url, source \o "_url", db_ok)
  /\ UNCHANGED <<model_paths, classifier, calls>>
  /\ UNCHANGED fnVars

\* one pass of the loop of /batch-analyze behind the call of the engine,
\* which returned o for the text s: the flagging and the result
BatchStep(acc, s, source, db_ok, o) ==
  LET content_data == FlaggedRecord(s, source \o "_batch", o.value)
      flags == ~o.exc /\ batch_flag_condition(o.value)
  IN  [ml_model |-> ml_model_after_call(acc.ml_model, model_paths, o),
       history |-> Append(acc.history, HistoryEntry(s, source, <<>>, o)),
       results |-> Append(acc.results, IF o.exc THEN NoResponse ELSE o.value),
       flagged |-> IF flags THEN Append(acc.flagged, content_data) ELSE acc.flagged,
       store |-> IF flags THEN add_flagged_content(acc.store, content_data, db_ok)
                 ELSE acc.store]

\* the loop of /batch-analyze over texts[i..], from the model, the history,
\* the store and the results reached so far
RECURSIVE BatchLoop(_, _, _, _, _)
BatchLoop(texts, i, source, db_ok, acc) ==
  IF i > Len(texts) THEN acc
  ELSE BatchLoop(texts, i + 1, source, db_ok,
         IF router_too_short(TextOf(texts[i]))
           THEN [acc EXCEPT !.results = Append(@, NoResponse)]
           ELSE BatchStep(acc, texts[i], source, db_ok,
                          engine(texts[i], source, <<>>, acc.ml_model,
                                 classifier_on(texts[i]))))

\* POST /batch-analyze
BatchAnalyzeEndpoint(texts, source, db_ok) ==
  /\ served < MaxCalls
  /\ served' = served + 1
  /\ IF texts = <<>> \/ Len(texts) > 50 THEN Reject(400)
     ELSE \E acc \in {BatchLoop(texts, 1, source, db_ok,
                                [ml_model |-> ml_model, history |-> history,
                                 results |-> <<>>, flagged |-> <<>>,
                                 store |-> flagged_content])} :
             /\ ml_model' = acc.ml_model
             /\ history' = acc.history
             /\ flagged_content' = acc.store
             /\ response' = [status |-> 200, results |-> acc.results,
                             flagged |-> acc.flagged]
  /\ UNCHANGED <<model_paths, classifier, calls>>
  /\ UNCHANGED fnVars

\* a deployment that makes the running service load the new artifact
DeployArtifact_hot_reload(artifact) ==
  /\ model_paths[1] = Absent
  /\ model_paths' = [model_paths EXCEPT ![1] = artifact]
  /\ ml_model' = _load_enhanced_model(model_paths')
  /\ UNCHANGED <<classifier, flagged_content, served, response, history, calls>>
  /\ UNCHANGED fnVars
\* an artifact is put at the first candidate path while the service runs;
\* _load_enhanced_model is called by __init__ only
DeployArtifact(artifact) ==
  /\ model_paths[1] = Absent
  /\ model_paths' = [model_paths EXCEPT ![1] = artifact]
  /\ UNCHANGED <<ml_model, classifier, flagged_content, served, response, history, calls>>
  /\ UNCHANGED fnVars

BatchRequests ==
  UNION {[1..n -> BatchTexts] : n \in 0..MaxBatch}

Next ==
  \/ \E s \in ServiceTexts, db_ok \in BOOLEAN : AnalyzeTextEndpoint(s, "manual", db_ok)
  \/ \E url \in ServiceUrls \cup {<<>>}, page \in PageTexts, fetched \in BOOLEAN,
        db_ok \in BOOLEAN : AnalyzeUrlEndpoint(url, "manual", page, fetched, db_ok)
  \/ \E texts \in BatchRequests, db_ok \in BOOLEAN :
        BatchAnalyzeEndpoint(texts, "manual", db_ok)
  \/ \E artifact \in DeployedArtifacts : DeployArtifact(artifact)

Spec == Init /\ [][Next]_vars

SameInput(e1, e2) ==
  /\ e1.fragments = e2.fragments /\ e1.source = e2.source
  /\ e1.source_url = e2.source_url
\* the call ran the classifier to the end
Classified(e) == "classifier" \in e.evaluated /\ "patterns" \notin e.evaluated
\* the call passed the guard of analyze_text
Scored(e) == e.evaluated # {}

\* C7: two analyze_text calls with the same (text, source, source_url) on
\* one service return the same risk_score, fraud_type and is_suspicious,
\* whatever calls were made between them.
Determinism ==
  \A i, j \in DOMAIN history :
     SameInput(history[i], history[j])
     => /\ history[i].risk_score = history[j].risk_score
        /\ history[i].fraud_type = history[j].fraud_type
        /\ history[i].is_suspicious = history[j].is_suspicious

\* a classified text, then another text on which the classifier raises,
\* then the first text again
DeterminismWitness ==
  \E i, j, k \in DOMAIN history :
     /\ i < j /\ j < k
     /\ SameInput(history[i], history[k]) /\ ~SameInput(history[i], history[j])
     /\ Classified(history[i]) /\ FellBack(history[j])
     /\ history[i].risk_score = 940

\* C8: ml_model is what _load_enhanced_model returned at construction, for
\* the life of the service: no step changes it, a service that started
\* without a usable artifact never runs a classifier, and a service that
\* started with one runs it in every call that passes the guard, also after
\* a call in which inference raised.
ModelFixedAtConstruction ==
  [][ /\ ml_model' = ml_model
      /\ \A i \in DOMAIN history' :
           Scored(history'[i]) =>
             (("classifier" \in history'[i].evaluated) <=> UsesEnhancedPath(ml_model)) ]_vars

\* a loaded service whose classifier raised in one call and was run to the
\* end in the next, with another artifact deployed in the meantime
ModelFixedAtConstructionWitness ==
  /\ ComponentsLoaded(ml_model)
  /\ model_paths[1] = LegacyDict
  /\ \E i \in DOMAIN history :
        /\ i + 1 \in DOMAIN history
        /\ FellBack(history[i]) /\ Classified(history[i + 1])

\* C10: the store of flagged content receives an analysis only from the
\* endpoints and only when its risk_score is greater than 30: every entry
\* of the store and every add_flagged_content call of a request has
\* risk_score > 30 and carries a result of that request.
FlaggedOnlyAboveThreshold ==
  /\ \A i \in DOMAIN flagged_content : flagged_content[i].risk_score > 300
  /\ \A i \in DOMAIN response.flagged :
        /\ response.flagged[i].risk_score > 300
        /\ \E j \in DOMAIN response.results :
              /\ response.results[j].risk_score = response.flagged[i].risk_score
              /\ response.results[j].fraud_type = response.flagged[i].fraud_type
              /\ response.results[j].keywords_found = response.flagged[i].keywords_found
  /\ Len(flagged_content) <= Len(history)

\* a request answered with risk_score exactly 30 that flagged nothing, on a
\* service whose store holds an earlier analysis
FlaggedOnlyAboveThresholdWitness ==
  /\ response.status = 200 /\ response.flagged = <<>>
  /\ \E j \in DOMAIN response.results : response.results[j].risk_score = 300
  /\ flagged_content # <<>>

(***************************************************************************)
(* SpecPar: two threads call analyze_text on the one content_service of    *)
(* routers/scanner.py; a call advances statement by statement, and every   *)
(* read of an attribute of the service is a step of its own.               *)
(***************************************************************************)
InitPar ==
  /\ model_paths \in ServiceSituations
  /\ ml_model = _load_enhanced_model(model_paths)
  /\ classifier \in IF ComponentsLoaded(ml_model)
                      THEN [ClassifiedTexts -> ServiceOutcomes]
                      ELSE {[s \in ClassifiedTexts |-> NoClassifier]}
  /\ flagged_content = <<>>
  /\ served = 0
  /\ response = NoResponseYet
  /\ history = <<>>
  /\ calls = [t \in Threads |-> NoCall]
  /\ FnIdle

parVars == <<model_paths, classifier, flagged_content, served, response, history>>
CallText(t) == TextOf(calls[t].fragments)
TrustReduction(t) == IF calls[t].is_trusted_domain THEN 60 ELSE 0

\* thread t calls analyze_text(text, "manual", source_url)
Enter(t, s, source_url) ==
  /\ calls[t].pc = "idle"
  /\ calls' = [calls EXCEPT ![t] = [NoCall EXCEPT !.pc = "guard", !.fragments = s,
                                                  !.source_url = source_url]]
  /\ UNCHANGED <<ml_model, parVars>>
  /\ UNCHANGED fnVars

\* the guard on the length, and text_lower = text.lower()
Guard(t) ==
  /\ calls[t].pc = "guard"
  /\ calls' = [calls EXCEPT ![t] =
                 IF too_short(CallText(t))
                   THEN [@ EXCEPT !.pc = "done", !.value = insufficient_content]
                   ELSE [@ EXCEPT !.pc = "trust", !.text_lower = lower(CallText(t))]]
  /\ UNCHANGED <<ml_model, parVars>>
  /\ UNCHANGED fnVars

\* the trust evaluation, reading trusted_domains
Trust(t) ==
  /\ calls[t].pc = "trust"
  /\ calls' = [calls EXCEPT ![t] =
                 [@ EXCEPT !.pc = "dispatch",
                           !.is_trusted_domain =
                              IF calls[t].source_url # <<>>
                                THEN _is_trusted_domain(calls[t].source_url).value
                                ELSE FALSE]]
  /\ UNCHANGED <<ml_model, parVars>>
  /\ UNCHANGED fnVars

\* `if self.ml_model and 'ensemble_model' in self.ml_model`
Dispatch(t) ==
  /\ calls[t].pc = "dispatch"
  /\ calls' = [calls EXCEPT ![t] =
                 [@ EXCEPT !.pc = IF UsesEnhancedPath(ml_model) THEN "inference"
                                  ELSE "keywords"]]
  /\ UNCHANGED <<ml_model, parVars>>
  /\ UNCHANGED fnVars

\* the try block of _analyze_with_enhanced_model up to the probability,
\* reading self.ml_model again
Inference(t) ==
  /\ calls[t].pc = "inference"
  /\ LET inference == ml_inference(ml_model, classifier_on(calls[t].fragments)) IN
     /\ calls' = [calls EXCEPT ![t] =
                    [@ EXCEPT !.pc = IF inference.exc THEN "keywords" ELSE "enhanced",
                              !.inference = inference]]
     /\ ml_model' = ml_model_after_inference(ml_model, inference)
  /\ UNCHANGED parVars
  /\ UNCHANGED fnVars

\* the rest of the try block
Enhanced(t) ==
  /\ calls[t].pc = "enhanced"
  /\ calls' = [calls EXCEPT ![t] =
                 [@ EXCEPT !.pc = "done",
                           !.value = enhanced_response(calls[t].text_lower,
                                                       calls[t].is_trusted_domain,
                                                       TrustReduction(t),
                                                       calls[t].inference)]]
  /\ UNCHANGED <<ml_model, parVars>>
  /\ UNCHANGED fnVars

\* _find_fraud_keywords, reading fraud_keywords into a local dict
Keywords(t) ==
  /\ calls[t].pc = "keywords"
  /\ calls' = [calls EXCEPT ![t] =
                 [@ EXCEPT !.pc = "patterns",
                           !.found_keywords = find_fraud_keywords(calls[t].text_lower)]]
  /\ UNCHANGED <<ml_model, parVars>>
  /\ UNCHANGED fnVars

\* _find_pattern_matches, reading risk_patterns into a local list
Patterns(t) ==
  /\ calls[t].pc = "patterns"
  /\ calls' = [calls EXCEPT ![t] =
                 [@ EXCEPT !.pc = "score",
                           !.pattern_matches = find_pattern_matches(calls[t].text_lower)]]
  /\ UNCHANGED <<ml_model, parVars>>
  /\ UNCHANGED fnVars

\* the scores and the response of _analyze_with_keywords
Score(t) ==
  /\ calls[t].pc = "score"
  /\ calls' = [calls EXCEPT ![t] =
                 [@ EXCEPT !.pc = "done",
                           !.value = keyword_response(CallText(t), calls[t].text_lower,
                                                      calls[t].is_trusted_domain,
                                                      TrustReduction(t),
                                                      calls[t].found_keywords,
                                                      calls[t].pattern_matches)]]
  /\ UNCHANGED <<ml_model, parVars>>
  /\ UNCHANGED fnVars

NextPar ==
  \/ \E t \in Threads, s \in ServiceTexts, source_url \in ServiceUrls \cup {<<>>} :
        Enter(t, s, source_url)
  \/ \E t \in Threads : Guard(t)
  \/ \E t \in Threads : Trust(t)
  \/ \E t \in Threads : Dispatch(t)
  \/ \E t \in Threads : Inference(t)
  \/ \E t \in Threads : Enhanced(t)
  \/ \E t \in Threads : Keywords(t)
  \/ \E t \in Threads : Patterns(t)
  \/ \E t \in Threads : Score(t)

SpecPar == InitPar /\ [][NextPar]_vars

\* what the call of thread t returns when it runs alone on the service
Alone(t) ==
  engine(calls[t].fragments, "manual", calls[t].source_url,
         _load_enhanced_model(model_paths), classifier_on(calls[t].fragments))

\* C9: under every interleaving of the steps of parallel analyze_text calls
\* on the shared service, a call returns the risk_score, confidence_score,
\* fraud_type, is_suspicious and keywords_found it returns when run alone,
\* and ml_model stays what the constructor loaded.
ParallelCallsIndependent ==
  /\ ml_model = _load_enhanced_model(model_paths)
  /\ \A t \in Threads :
        calls[t].pc = "done" =>
          /\ ~Alone(t).exc
          /\ calls[t].value.risk_score = Alone(t).value.risk_score
          /\ calls[t].value.confidence_score = Alone(t).value.confidence_score
          /\ calls[t].value.fraud_type = Alone(t).value.fraud_type
          /\ calls[t].value.is_suspicious = Alone(t).value.is_suspicious
          /\ calls[t].value.keywords_found = Alone(t).value.keywords_found

\* one call fell back after its inference raised, the other, on another
\* text, was classified
ParallelCallsIndependentWitness ==
  /\ ComponentsLoaded(ml_model)
  /\ calls[1].pc = "done" /\ calls[2].pc = "done"
  /\ calls[1].fragments # calls[2].fragments
  /\ calls[1].inference.exc /\ calls[1].found_keywords # <<>>
  /\ calls[1].value.risk_score = 550
  /\ ~calls[2].inference.exc /\ calls[2].value.risk_score = 300

(***************************************************************************)
(* Properties of the labels and scores of one analyze_text call, checked   *)
(* under SpecFn.                                                           *)
(***************************************************************************)
\* the fraud_type labels of a trusted source
TrustedLabels == {"legitimate", "low_risk"}

\* C11: for a text of trimmed length >= 10 and a source_url that
\* _is_trusted_domain accepts, the fraud_type that analyze_text returns is
\* "legitimate" or "low_risk", with a classifier and without one.
TrustedFraudTypes ==
  (/\ pc # "ready" /\ Len(strip(RequestText)) >= 10
   /\ _is_trusted_domain(request.source_url).value)
  => (~outcome.exc /\ outcome.value.fraud_type \in TrustedLabels)

\* a trusted URL, a text full of fraud keywords and a classifier that is
\* certain of fraud: the label is low_risk at an adjusted risk of 40
TrustedFraudTypesWitness ==
  /\ pc = "analyzed" /\ _is_trusted_domain(request.source_url).value
  /\ ComponentsLoaded(ml_model) /\ ~ClassifierRaises(request.clf)
  /\ request.clf.prediction = 1 /\ request.clf.probabilities = <<0, 10000>>
  /\ request.fragments = {1, 9}
  /\ outcome.value.fraud_type = "low_risk" /\ outcome.value.risk_score = 400

\* "Guaranteed 100% returns in 30 days! Join our WhatsApp group now!"
GuaranteedReturnsText ==
  <<"G","u","a","r","a","n","t","e","e","d"," ","1","0","0","%"," ","r","e","t","u","r","n","s"," ","i","n"," ","3","0"," ","d","a","y","s","!"," ","J","o","i","n"," ","o","u","r"," ","W","h","a","t","s","A","p","p"," ","g","r","o","u","p"," ","n","o","w","!">>

\* the keyword "guaranteed" as keywords_found lists it
GuaranteedKeyword == <<"g","u","a","r","a","n","t","e","e","d">>

\* C12: without a classifier and without source_url, analyze_text on
\* "Guaranteed 100% returns in 30 days! Join our WhatsApp group now!" returns
\* fraud_type "guaranteed_returns_scam", a risk_score above 50,
\* is_suspicious = true and keywords_found with "guaranteed" in it.
GuaranteedReturnsScenario ==
  (/\ pc # "ready" /\ ~UsesEnhancedPath(ml_model)
   /\ RequestText = GuaranteedReturnsText /\ request.source_url = <<>>)
  => /\ ~outcome.exc
     /\ outcome.value.fraud_type = "guaranteed_returns_scam"
     /\ outcome.value.risk_score > 500
     /\ outcome.value.is_suspicious
     /\ InList(GuaranteedKeyword, outcome.value.keywords_found)

\* the call on that text by a service that loaded no artifact: 25 for the
\* three guaranteed_returns keywords and 30 for the percentage pattern
GuaranteedReturnsScenarioWitness ==
  /\ pc = "analyzed" /\ ml_model = PyNone
  /\ RequestText = GuaranteedReturnsText /\ request.source_url = <<>>
  /\ outcome.evaluated = {"keywords", "patterns", "legitimate"}
  /\ outcome.value.risk_score = 550

\* "Mutual fund investments are subject to market risks. Please read all
\* scheme related documents carefully."
MutualFundText ==
  <<"M","u","t","u","a","l"," ","f","u","n","d"," ","i","n","v","e","s","t","m","e","n","t","s"," ","a","r","e"," ","s","u","b","j","e","c","t"," ","t","o"," ","m","a","r","k","e","t"," ","r","i","s","k","s","."," ","P","l","e","a","s","e"," ","r","e","a","d"," ","a","l","l"," ","s","c","h","e","m","e"," ","r","e","l","a","t","e","d"," ","d","o","c","u","m","e","n","t","s"," ","c","a","r","e","f","u","l","l","y",".">>

\* the text of the request matches no fraud keyword and no risk pattern
MatchesNothing ==
  /\ find_fraud_keywords(lower(RequestText)) = <<>>
  /\ find_pattern_matches(lower(RequestText)) = <<>>

\* risk_score 0, fraud_type "legitimate", not suspicious
CleanResult(o) ==
  /\ ~o.exc /\ o.value.risk_score = 0
  /\ o.value.fraud_type = "legitimate" /\ ~o.value.is_suspicious

\* C13: without a classifier, analyze_text on the mutual-fund disclaimer
\* with no source_url returns a risk_score below 30, is_suspicious = false
\* and fraud_type "legitimate"; and in lexical-only mode every text of
\* trimmed length >= 10 that matches no fraud keyword and no risk pattern
\* gets risk_score 0, fraud_type "legitimate" and is_suspicious = false.
LegitimateScenario ==
  /\ (/\ pc # "ready" /\ ~UsesEnhancedPath(ml_model)
      /\ RequestText = MutualFundText /\ request.source_url = <<>>)
     => /\ ~outcome.exc
        /\ outcome.value.risk_score < 300
        /\ ~outcome.value.is_suspicious
        /\ outcome.value.fraud_type = "legitimate"
  /\ (/\ pc # "ready" /\ ~UsesEnhancedPath(ml_model)
      /\ Len(strip(RequestText)) >= 10 /\ MatchesNothing)
     => CleanResult(outcome)

\* the disclaimer scored by a service without artifact: no keyword, no
\* pattern, and legitimate indicators that the clamp at 0 absorbs
LegitimateScenarioWitness ==
  /\ pc = "analyzed" /\ ml_model = PyNone
  /\ RequestText = MutualFundText /\ request.source_url = <<>>
  /\ MatchesNothing
  /\ calculate_legitimate_score(lower(RequestText)) > 0
  /\ outcome.evaluated = {"keywords", "patterns", "legitimate"}
  /\ CleanResult(outcome)

\* C13 as stated: the disclaimer with no source_url gets risk_score < 30,
\* not suspicious, "legitimate", whatever is loaded; and in lexical-only
\* mode every text that matches no fraud keyword and no risk pattern gets
\* risk_score 0, "legitimate", not suspicious.
LegitimateScenarioAsStated ==
  /\ (/\ pc # "ready"
      /\ RequestText = MutualFundText /\ request.source_url = <<>>)
     => /\ ~outcome.exc
        /\ outcome.value.risk_score < 300
        /\ ~outcome.value.is_suspicious
        /\ outcome.value.fraud_type = "legitimate"
  /\ (pc # "ready" /\ ~UsesEnhancedPath(ml_model) /\ MatchesNothing)
     => CleanResult(outcome)

\* the closed set of fraud_type labels
FraudTypes ==
  {"legitimate", "low_risk", "guaranteed_returns_scam", "pressure_tactics",
   "insider_trading_scam", "fake_advisor", "social_manipulation", "contact_scam",
   "unrealistic_promises", "suspicious_patterns", "general_fraud",
   "insufficient_content"}

\* C14: on every path (short text, trusted source, classifier, lexical,
\* fallback after a failed inference) the fraud_type that analyze_text
\* returns is one of the twelve labels of FraudTypes.
FraudTypeClosedSet ==
  /\ pc # "ready" => (~outcome.exc /\ outcome.value.fraud_type \in FraudTypes)
  /\ pc = "extended" =>
       (~added.outcome.exc /\ added.outcome.value.fraud_type \in FraudTypes)

\* the fallback after a failed inference labels a text by its largest
\* keyword category, which goes through the category mapping
FraudTypeClosedSetWitness ==
  /\ pc = "analyzed" /\ ComponentsLoaded(ml_model) /\ request.clf.proba_raises
  /\ request.source_url = <<>>
  /\ request.fragments = {5, 6}
  /\ outcome.value.keywords_found # <<>>
  /\ outcome.value.fraud_type = "fake_advisor"

\* did the classifier of the request run to the end
ClassifierAnswered ==
  ComponentsLoaded(ml_model) /\ ~ml_inference(ml_model, request.clf).exc

\* the risk of the request after the trust reduction of 60 is below 30:
\* the adjusted probability on the classifier path, base_risk_score on the
\* lexical path
AdjustedRiskBelow30 ==
  IF ClassifierAnswered
    THEN Max(0, ml_inference(ml_model, request.clf).fraud_probability - 6000) < 3000
    ELSE FLt(keyword_base_risk_score(lower(RequestText), 60,
                                     find_fraud_keywords(lower(RequestText)),
                                     find_pattern_matches(lower(RequestText))), 30)

\* C15: for a trusted source_url, on the classifier path and on the lexical
\* path, fraud_type is "legitimate" exactly when the risk after the trust
\* reduction of 60 is below 30 and "low_risk" otherwise; and in lexical-only
\* mode the returned risk_score is at most 20 with "legitimate" and at most
\* 35 with "low_risk".
TrustOverrideThresholds ==
  (/\ pc # "ready" /\ Len(strip(RequestText)) >= 10
   /\ _is_trusted_domain(request.source_url).value)
  => /\ ~outcome.exc
     /\ outcome.value.fraud_type =
          (IF AdjustedRiskBelow30 THEN "legitimate" ELSE "low_risk")
     /\ ~UsesEnhancedPath(ml_model) =>
          /\ outcome.value.fraud_type = "legitimate" => outcome.value.risk_score <= 200
          /\ outcome.value.fraud_type = "low_risk" => outcome.value.risk_score <= 350

\* the probability of the request after the trust reduction, in hundredths
AdjustedProbability ==
  Max(0, ml_inference(ml_model, request.clf).fraud_probability
         - (IF _is_trusted_domain(request.source_url).value THEN 6000 ELSE 0))

Untrusted == ~_is_trusted_domain(request.source_url).value

\* C17: in lexical-only mode with an absent or untrusted source_url,
\* is_suspicious is true exactly when the risk_score is above 50; a
\* risk_score of exactly 50 is not suspicious.
SuspiciousAbove50 ==
  (/\ pc # "ready" /\ ~UsesEnhancedPath(ml_model)
   /\ Len(strip(RequestText)) >= 10 /\ Untrusted)
  => /\ ~outcome.exc
     /\ outcome.value.is_suspicious = (outcome.value.risk_score > 500)

\* The host of a URL as C18 reads it: the URL gets "https://" in front when
\* it has no scheme, the authority runs from behind "//" to the first of
\* / ? #, and the host is the authority without userinfo and without port.
WithScheme(url) ==
  IF startswith(url, <<"h","t","t","p",":","/","/">>) \/ startswith(url, <<"h","t","t","p","s",":","/","/">>)
    THEN url ELSE <<"h","t","t","p","s",":","/","/">> \o url

Authority(url) ==
  LET u     == WithScheme(url)
      start == IF startswith(u, <<"h","t","t","p","s",":","/","/">>) THEN 9 ELSE 8
      stops == {i \in start..Len(u) : u[i] \in {"/", "?", "#"}}
  IN  SubSeq(u, start, IF stops = {} THEN Len(u)
                        ELSE (CHOOSE i \in stops : \A j \in stops : i <= j) - 1)

HostOf(url) ==
  LET a      == Authority(url)
      ats    == {i \in 1..Len(a) : a[i] = "@"}
      h      == IF ats = {} THEN a ELSE SubSeq(a, (CHOOSE i \in ats : \A j \in ats : i >= j) + 1, Len(a))
      colons == {i \in 1..Len(h) : h[i] = ":"}
  IN  IF colons = {} THEN h ELSE SubSeq(h, 1, (CHOOSE i \in colons : \A j \in colons : i <= j) - 1)

\* a URL that cannot be parsed: a square bracket without its partner
Malformed(url) ==
  (\E i \in 1..Len(url) : url[i] = "[") # (\E i \in 1..Len(url) : url[i] = "]")

\* the host of the URL, "www." stripped and lower-cased, is on the list
HostIsListed(url) ==
  /\ url # <<>> /\ ~Malformed(url)
  /\ InList(lower(strip_www(HostOf(url))), trusted_domains)

\* C18: _is_trusted_domain(url) returns true exactly when the host of the
\* URL, parsed with "https://" in front when it has no scheme, with a
\* leading "www." stripped and lower-cased, is an entry of the
\* trusted-domain list; it returns false for an empty, absent or malformed
\* URL, for a subdomain and for a look-alike host, and it never raises.
TrustedExactlyListedHosts ==
  pc # "ready" =>
    /\ ~_is_trusted_domain(request.source_url).exc
    /\ _is_trusted_domain(request.source_url).value = HostIsListed(request.source_url)

\* the seven category weights as C19 lists them
ListedWeight(category) ==
  CASE category = "guaranteed_returns" -> 25
    [] category = "urgency_pressure" -> 20
    [] category = "insider_trading" -> 30
    [] category = "fake_credentials" -> 25
    [] category = "social_proof_manipulation" -> 15
    [] category = "contact_pressure" -> 20
    [] category = "unrealistic_claims" -> 30

\* three times the sum over the matched categories of
\* weight * min(count, 3) / 3: the sum counted in thirds, without rounding
ThirdsOfKeywords(found_keywords) ==
  SumSeq([i \in 1..Len(found_keywords) |->
            ListedWeight(found_keywords[i].category)
              * Min(Len(found_keywords[i].keywords), 3)])

\* the float x is the exact value thirds / 3, up to the rounding of the
\* float additions: an error of at most 256 units of 2^-50 / 3, which is
\* less than 10^-13
IsThirds(x, thirds) ==
  /\ x[1] = thirds
  /\ -256 <= x[2] /\ x[2] <= 256

\* the keyword score of found_keywords is min(80, sum) and at most 80
KeywordScoreIsCappedSum(found_keywords) ==
  /\ IsThirds(_calculate_keyword_risk_score(found_keywords),
              Min(240, ThirdsOfKeywords(found_keywords)))
  /\ ~FGt(_calculate_keyword_risk_score(found_keywords), 80)

\* C19: for the keywords matched in a text, _calculate_keyword_risk_score
\* returns min(80, sum over the matched categories of
\* weight * min(count, 3) / 3) with the seven listed weights, so that a
\* fourth keyword of a category adds nothing and the score never exceeds 80.
KeywordScoreFormula ==
  /\ (pc # "ready" /\ "keywords" \in outcome.evaluated)
     => KeywordScoreIsCappedSum(find_fraud_keywords(lower(RequestText)))
  /\ (pc = "extended" /\ "keywords" \in added.outcome.evaluated)
     => KeywordScoreIsCappedSum(
          find_fraud_keywords(lower(TextOf(request.fragments \cup {added.fragment}))))

\* a text with four fake_credentials keywords: the category gives 25 as
\* with three, and the lexical path returns 25 - 5 for the one legitimate
\* indicator
KeywordScoreFormulaWitness ==
  /\ pc = "analyzed" /\ ~UsesEnhancedPath(ml_model)
  /\ request.fragments = {4, 5} /\ request.source_url = <<>>
  /\ "keywords" \in outcome.evaluated
  /\ \E e \in {find_fraud_keywords(lower(RequestText))} :
        /\ Len(e) = 1 /\ Len(e[1].keywords) = 4
        /\ _calculate_keyword_risk_score(e) = FInt(25)
  /\ outcome.value.risk_score = 200

\* the number of legitimate indicators in the text of the request
LegitimateCount ==
  Cardinality({i \in 1..Len(legitimate_indicators) :
                 contains(lower(RequestText), legitimate_indicators[i])})

\* the sum of the weights of the pattern rules that match the text
PatternScore ==
  SumSeq([i \in 1..Len(find_pattern_matches(lower(RequestText))) |->
            find_pattern_matches(lower(RequestText))[i].risk_score])

\* clamp(keywordScore + patternScore - legitimacyScore, 0, 100) in thirds,
\* with keywordScore = min(80, sum) and legitimacyScore = min(5 * count, 25)
LexicalRiskThirds ==
  Max(0, Min(300, Min(240, ThirdsOfKeywords(find_fraud_keywords(lower(RequestText))))
                    + 3 * PatternScore
                    - 3 * Min(5 * LegitimateCount, 25)))

\* C20: in lexical-only mode with an absent or untrusted source_url, the
\* returned risk_score is clamp(keywordScore + patternScore -
\* legitimacyScore, 0, 100) (at the one decimal of the response), where
\* patternScore is the sum, without cap, of the weights of the matched
\* pattern rules and legitimacyScore is min(5 * the number of legitimate
\* indicators found, 25).
LexicalRiskFormula ==
  (/\ pc # "ready" /\ ~UsesEnhancedPath(ml_model)
   /\ Len(strip(RequestText)) >= 10 /\ Untrusted)
  => /\ ~outcome.exc
     /\ outcome.value.risk_score = (10 * LexicalRiskThirds + 1) \div 3

\* four pattern rules that add up to 120 and seven legitimate indicators,
\* which take off 25: a risk of 95
LexicalRiskFormulaWitness ==
  /\ pc = "analyzed" /\ ml_model = PyNone
  /\ request.fragments = {7, 12} /\ request.source_url = Urls[3]
  /\ PatternScore = 120 /\ LegitimateCount = 7
  /\ outcome.evaluated = {"trust", "keywords", "patterns", "legitimate"}
  /\ outcome.value.risk_score = 950

\* clamp(50 + min(10 * totalKeywordCount, 30) + min(5 * patternCount, 15)
\*       + min(textLength / 100, 5), 0, 95) for the text of the request, in
\* hundredths
LexicalConfidenceHundredths ==
  Max(0, Min(9500,
      5000
      + 100 * Min(10 * keyword_count(find_fraud_keywords(lower(RequestText))), 30)
      + 100 * Min(5 * Len(find_pattern_matches(lower(RequestText))), 15)
      + Min(Len(RequestText), 500)))

\* the confidence in tenths c is the value of h hundredths at the one
\* decimal of the response
IsRoundedHundredths(c, h) == 10 * c - h <= 5 /\ h - 10 * c <= 5

\* C21: in lexical-only mode the confidence_score of an analysed text is
\* clamp(50 + min(10 * totalKeywordCount, 30) + min(5 * patternCount, 15)
\* + min(textLength / 100, 5), 0, 95), at the one decimal of the response;
\* it lies between 50 and 95 and is the same for every source_url, trusted
\* or not.
LexicalConfidenceFormula ==
  (pc # "ready" /\ ~UsesEnhancedPath(ml_model) /\ Len(strip(RequestText)) >= 10)
  => /\ ~outcome.exc
     /\ IsRoundedHundredths(outcome.value.confidence_score, LexicalConfidenceHundredths)
     /\ 500 <= outcome.value.confidence_score
     /\ outcome.value.confidence_score <= 950

\* a trusted URL that takes the risk from 95 down to 20, with no keyword,
\* four patterns and 142 characters: the confidence is 50 + 15 + 1.42 as
\* without the URL
LexicalConfidenceFormulaWitness ==
  /\ pc = "analyzed" /\ ml_model = PyNone
  /\ request.fragments = {7, 12} /\ _is_trusted_domain(request.source_url).value
  /\ Len(RequestText) = 142
  /\ outcome.value.risk_score = 200
  /\ outcome.value.confidence_score = 664

\* the number of keywords of the i-th category of the keyword table that
\* the text of the request matches
MatchCount(i) ==
  LET found == find_fraud_keywords(lower(RequestText))
      hits  == {j \in 1..Len(found) : found[j].category = fraud_keywords[i].category}
  IN  IF hits = {} THEN 0 ELSE Len(found[CHOOSE j \in hits : TRUE].keywords)

\* the category with the highest match count, the first in table order
\* among those that tie
MajorityCategory ==
  fraud_keywords[CHOOSE i \in 1..Len(fraud_keywords) :
                   /\ \A j \in 1..Len(fraud_keywords) : MatchCount(j) <= MatchCount(i)
                   /\ \A j \in 1..(i - 1) : MatchCount(j) < MatchCount(i)].category

\* C22: on the lexical path with an absent or untrusted source_url the
\* fraud_type is "legitimate" when no keyword and no pattern matched,
\* "suspicious_patterns" when only patterns matched, and otherwise the
\* mapped type of the keyword category with the highest match count, the
\* first in the order of the keyword table when several tie.
LexicalFraudType ==
  (/\ pc # "ready" /\ ~UsesEnhancedPath(ml_model)
   /\ Len(strip(RequestText)) >= 10 /\ Untrusted)
  => /\ ~outcome.exc
     /\ outcome.value.fraud_type =
          (IF MatchesNothing THEN "legitimate"
           ELSE IF find_fraud_keywords(lower(RequestText)) = <<>> THEN "suspicious_patterns"
           ELSE category_mapping(MajorityCategory))

\* two keywords each of insider_trading, fake_credentials and
\* contact_pressure: the tie goes to insider_trading, the first in the table
LexicalFraudTypeWitness ==
  /\ pc = "analyzed" /\ ml_model = PyNone /\ request.source_url = <<>>
  /\ request.fragments = {11}
  /\ MatchCount(3) = 2 /\ MatchCount(4) = 2 /\ MatchCount(6) = 2
  /\ \A i \in 1..Len(fraud_keywords) : MatchCount(i) <= 2
  /\ outcome.value.fraud_type = "insider_trading_scam"

\* the phrases of the four checks of the enhanced mode, in their order
GuaranteePhrases == {<<"5","0","0","%">>, <<"1","0","0","0","%">>, <<"2","0","0","0","%">>, <<"g","u","a","r","a","n","t","e","e","d">>, <<"g","u","a","r","a","n","t","e","e">>}
UrgencyPhrases == {<<"u","r","g","e","n","t">>, <<"i","m","m","e","d","i","a","t","e">>, <<"l","i","m","i","t","e","d"," ","t","i","m","e">>, <<"a","c","t"," ","n","o","w">>}
InsiderPhrases == {<<"i","n","s","i","d","e","r">>, <<"e","x","c","l","u","s","i","v","e">>, <<"s","e","c","r","e","t">>, <<"c","o","n","f","i","d","e","n","t","i","a","l">>}
CredentialPhrases == {<<"s","e","b","i">>, <<"c","e","r","t","i","f","i","e","d">>, <<"l","i","c","e","n","s","e","d">>, <<"a","p","p","r","o","v","e","d">>}

\* the lowered text of the request has one of the phrases
HasPhrase(phrases) == \E phrase \in phrases : contains(lower(RequestText), phrase)

\* the category-majority rule on the keywords alone
MajorityType ==
  IF find_fraud_keywords(lower(RequestText)) = <<>> THEN "legitimate"
  ELSE category_mapping(MajorityCategory)

\* C23: when the classifier succeeded and the source is not trusted, the
\* fraud_type is "legitimate" if is_suspicious is false; if it is true the
\* first check that matches decides, in the order guarantee phrases,
\* urgency phrases, insider phrases, credential phrases, category-majority
\* fallback: a text with a guarantee phrase and an urgency phrase is a
\* guaranteed_returns_scam.
EnhancedFraudType ==
  (/\ pc # "ready" /\ Len(strip(RequestText)) >= 10
   /\ ClassifierAnswered /\ Untrusted)
  => /\ ~outcome.exc
     /\ outcome.value.fraud_type =
          (IF ~outcome.value.is_suspicious THEN "legitimate"
           ELSE IF HasPhrase(GuaranteePhrases) THEN "guaranteed_returns_scam"
           ELSE IF HasPhrase(UrgencyPhrases) THEN "pressure_tactics"
           ELSE IF HasPhrase(InsiderPhrases) THEN "insider_trading_scam"
           ELSE IF HasPhrase(CredentialPhrases) THEN "fake_advisor"
           ELSE MajorityType)

\* "guaranteed profit" and "limited time" in one text that the classifier
\* calls fraud with probability 94
EnhancedFraudTypeWitness ==
  /\ pc = "analyzed" /\ ClassifierAnswered /\ request.source_url = <<>>
  /\ request.fragments = {9}
  /\ HasPhrase(GuaranteePhrases) /\ HasPhrase(UrgencyPhrases)
  /\ request.clf.prediction = 1 /\ request.clf.probabilities = <<600, 9400>>
  /\ outcome.value.is_suspicious
  /\ outcome.value.fraud_type = "guaranteed_returns_scam"

\* the candidate paths that hold a file
ExistingPaths == {i \in 1..3 : model_paths[i].exists}
\* the artifact at the first of them
UsedArtifact == model_paths[CHOOSE i \in ExistingPaths : \A j \in ExistingPaths : i <= j]
\* the artifact is a bundle with an ensemble predictor
IsBundle(a) == a.is_dict /\ \E p \in a.items : p[1] = "ensemble_model"
\* the used artifact unpickles and is in the legacy format
LegacyLoaded == ExistingPaths # {} /\ UsedArtifact.loads /\ ~IsBundle(UsedArtifact)

\* C24: the service holds what the first existing one of the three candidate
\* paths gives, whatever lies at the later paths: nothing when no path
\* exists, the bundle when that file is a bundle with an ensemble predictor,
\* and for a file in legacy format a model whose vectorizer is None; on a
\* service with a legacy artifact every analyze_text call returns what the
\* service without artifact returns and the classifier is not run.
ArtifactLoading ==
  /\ ExistingPaths = {} => ml_model = PyNone
  /\ (ExistingPaths # {} /\ UsedArtifact.loads /\ IsBundle(UsedArtifact))
       => ml_model = Dict(UsedArtifact.items)
  /\ LegacyLoaded
       => /\ ~ml_model.none
          /\ <<"tfidf_vectorizer", "None">> \in ml_model.items
          /\ pc # "ready" => /\ outcome = reference
                             /\ "classifier" \notin outcome.evaluated

\* a legacy pickle at the first path hides the bundle at the second one; the
\* keyword-heavy text is scored by the keyword analysis alone
ArtifactLoadingWitness ==
  /\ pc = "analyzed" /\ model_paths = <<PickledObject, GoodBundle, Absent>>
  /\ LegacyLoaded
  /\ request.fragments = {1, 7} /\ request.source_url = <<>>
  /\ outcome.value.risk_score = 1000
  /\ outcome.evaluated = {"keywords", "patterns", "legitimate"}

\* an artifact was loaded, and it lacks the vectorizer or the predictor
MalformedArtifact == ~ml_model.none /\ ~ComponentsLoaded(ml_model)
\* both components run and predict_proba gives fewer than two probabilities
ShortProbabilityVector ==
  /\ ComponentsLoaded(ml_model) /\ ~ClassifierRaises(request.clf)
  /\ Len(request.clf.probabilities) < 2

\* C25: when the loaded artifact has no vectorizer or no predictor (the key
\* is missing or its value is None), or predict_proba returns fewer than two
\* probabilities, analyze_text returns the risk_score, confidence_score,
\* fraud_type, is_suspicious and keywords_found that a service without
\* artifact returns for the same text and source_url.
MalformedArtifactAsNone ==
  (pc # "ready" /\ (MalformedArtifact \/ ShortProbabilityVector))
  => /\ ~outcome.exc /\ ~reference.exc
     /\ outcome.value.risk_score = reference.value.risk_score
     /\ outcome.value.confidence_score = reference.value.confidence_score
     /\ outcome.value.fraud_type = reference.value.fraud_type
     /\ outcome.value.is_suspicious = reference.value.is_suspicious
     /\ outcome.value.keywords_found = reference.value.keywords_found

\* a good bundle whose predict_proba gives one probability for a text with
\* one keyword: the inference is given up and the keyword analysis scores it
MalformedArtifactAsNoneWitness ==
  /\ pc = "analyzed" /\ ShortProbabilityVector
  /\ request.clf.prediction = 1
  /\ request.fragments = {6} /\ request.source_url = <<>>
  /\ "classifier" \in outcome.evaluated
  /\ outcome.value.keywords_found # <<>>
  /\ ~outcome.value.is_suspicious
  /\ outcome.value.risk_score < 500

\* The severity band of an explanation, 1 for minimal/low to 4 for very
\* high/critical.  The keyword analysis words its three warnings moderate,
\* high and very high; the classifier path words them "Some suspicious
\* patterns", "Medium fraud risk" and "High fraud risk", which are taken as
\* the second, third and fourth band.
SeverityBand(e) ==
  CASE e.severity = "none" -> 1
    [] e.severity \in {"moderate", "some"} -> 2
    [] e.severity = "medium" -> 3
    [] e.severity = "high" /\ e.template = "Content shows {severity} risk of being fraudulent" -> 3
    [] OTHER -> 4

\* the bands that C26 gives a risk score in tenths; a score on a boundary
\* may take the band on either side
RiskBands(risk) ==
  {b \in 1..4 : /\ (b = 1 => risk <= 400)
                /\ (b = 2 => risk >= 400 /\ risk <= 600)
                /\ (b = 3 => risk >= 600 /\ risk <= 800)
                /\ (b = 4 => risk >= 800)}

\* C26: for an absent or untrusted source_url the severity of the
\* explanation is the band of the returned risk score, below 40 minimal/low,
\* 40 to 60 moderate, 60 to 80 high, above 80 very high/critical, in
\* lexical-only mode as well as in classifier mode.
ExplanationSeverityBands ==
  (pc # "ready" /\ Len(strip(RequestText)) >= 10 /\ Untrusted)
  => /\ ~outcome.exc
     /\ SeverityBand(outcome.value.explanation) \in RiskBands(outcome.value.risk_score)

HarmlessTypes == {"legitimate", "low_risk", "insufficient_content"}

\* C28: a result of analyze_text with is_suspicious true has a fraud_type
\* other than "legitimate", "low_risk" and "insufficient_content", on the
\* lexical path and on the classifier path, also when the classifier calls
\* a text fraud that holds no keyword and no enhanced-mode phrase.
SuspiciousNeverLegitimate ==
  /\ (pc # "ready" /\ ~outcome.exc /\ outcome.value.is_suspicious)
       => outcome.value.fraud_type \notin HarmlessTypes
  /\ (pc = "extended" /\ ~added.outcome.exc /\ added.outcome.value.is_suspicious)
       => added.outcome.value.fraud_type \notin HarmlessTypes

\* C29: for a trusted source_url the returned risk_score is at most 40 on
\* every path; when the keyword analysis scores the text (no classifier, or
\* the fallback after a failed inference) it is at most 35, and at most 20
\* when the fraud_type is "legitimate".
TrustedRiskBounds ==
  (pc # "ready" /\ _is_trusted_domain(request.source_url).value)
  => /\ ~outcome.exc
     /\ outcome.value.risk_score <= 400
     /\ ~ClassifierAnswered
          => /\ outcome.value.risk_score <= 350
             /\ outcome.value.fraud_type = "legitimate"
                  => outcome.value.risk_score <= 200

\* a trusted page whose keyword score stays at 25 to 40 behind the trust
\* reduction: it is labelled legitimate and cut to 20
TrustedRiskBoundsWitness ==
  /\ pc = "analyzed" /\ _is_trusted_domain(request.source_url).value
  /\ ~UsesEnhancedPath(ml_model)
  /\ request.fragments = {1, 10}
  /\ reference.value.fraud_type = "legitimate"
  /\ outcome.value.fraud_type = "legitimate"
  /\ outcome.value.risk_score = 200

\* C30: when the classifier of a loaded artifact answers, the returned
\* confidence_score equals the returned risk_score; when the keyword
\* analysis scores the text, without artifact or after a failed inference,
\* the confidence_score is the lexical confidence of the keyword count, the
\* pattern count and the text length, whatever the risk_score is.
ConfidenceByPath ==
  (pc # "ready" /\ Len(strip(RequestText)) >= 10)
  => /\ ~outcome.exc
     /\ IF ClassifierAnswered
          THEN outcome.value.confidence_score = outcome.value.risk_score
          ELSE IsRoundedHundredths(outcome.value.confidence_score,
                                   LexicalConfidenceHundredths)

\* a trusted URL and a fraud probability of 94%: risk and confidence are
\* both 34, where the keyword analysis of the same request gives 35 and 95
ConfidenceByPathWitness ==
  /\ pc = "analyzed" /\ ClassifierAnswered
  /\ _is_trusted_domain(request.source_url).value
  /\ request.fragments = {1, 7}
  /\ request.clf.probabilities = <<600, 9400>>
  /\ outcome.value.risk_score = 340 /\ outcome.value.confidence_score = 340
  /\ reference.value.risk_score = 350 /\ reference.value.confidence_score = 950

====
